---- MODULE Spec2Model ----
(***************************************************************************)
(* A model of the rensa scan engine: the PluginRegistry routing table,     *)
(* PluginRegistry::detect_all, Scanner::scan with every plugin call as a   *)
(* call step and a return step, ScanReport::add_ecosystem_result, the      *)
(* update classification the shipped PackagistClient builds on, the        *)
(* HttpClient with its retrying fetch and its cache-aside get and post,    *)
(* the CacheManager, whose set, get and clean_expired are followed file    *)
(* operation by file operation, for one process and for two, and whose     *)
(* paths, clear and clean_expired are followed on a directory tree, and    *)
(* the VersionComparator functions applied to pools of version strings.    *)
(***************************************************************************)
EXTENDS Integers, Sequences, FiniteSets, TLC

(* ------------------------------ bounds --------------------------------- *)
\* registrations made on one registry
MaxReg == 3
\* register_plugin calls made on one registry
MaxPlugins == 2
\* files all detectors of one scan return together
MaxFiles == 2
\* dependencies all parsers of one scan return together
MaxDeps == 2
\* add_ecosystem_result calls made on one report
MaxFolds == 2
\* the retry counts given to with_retries
MaxRetries == 1
\* get / post calls made on one HttpClient
MaxCalls == 2
\* the seconds the clock advances
MaxNow == 3
\* operations one process makes on its CacheManager
MaxOps == 3
\* operations each of the processes sharing a directory makes
MaxSharedOps == 2

(* ------------------------------ options -------------------------------- *)
\* Option<T>: None is the empty sequence, Some(x) the one-element sequence.
None == <<>>
Some(x) == <<x>>
IsSome(o) == Len(o) = 1
Unwrap(o) == o[1]

RECURSIVE Flatten(_)
\* Vec::extend over a list of lists, in order
Flatten(ss) == IF ss = <<>> THEN <<>> ELSE Head(ss) \o Flatten(Tail(ss))

RECURSIVE SumSeq(_)
SumSeq(s) == IF s = <<>> THEN 0 ELSE Head(s) + SumSeq(Tail(s))

\* a subtraction that is not floored
unchecked_sub(a, b) == a - b

\* usize::saturating_sub
saturating_sub(a, b) == IF a >= b THEN a - b ELSE 0

(* ------------------------------ data ----------------------------------- *)
\* the Ecosystem tags the model uses (the enum has eleven)
Ecosystems == {"Composer", "Npm"}

\* A version string: an optional leading text ("v", "^", ...), the dotted
\* numeric components, and the pre-release tag ("" when there is none).
VersionString(prefix, parts, pre) == [prefix |-> prefix, parts |-> parts, pre |-> pre]

\* semver::Version::parse: exactly major.minor.patch, nothing in front
Version_parse(s) ==
    IF s.prefix = "" /\ Len(s.parts) = 3
    THEN Some([major |-> s.parts[1], minor |-> s.parts[2], patch |-> s.parts[3], pre |-> s.pre])
    ELSE None

\* str::trim_start_matches('v')
trim_start_matches_v(s) == IF s.prefix = "v" THEN [s EXCEPT !.prefix = ""] ELSE s

\* the classification that looks at a component only when the ones before
\* it are equal
classify_update_ordered(current, latest) ==
    LET c == Version_parse(current)
        l == Version_parse(latest)
    IN  IF IsSome(c) /\ IsSome(l)
        THEN IF Unwrap(l).major > Unwrap(c).major THEN "Major"
             ELSE IF Unwrap(l).major = Unwrap(c).major /\ Unwrap(l).minor > Unwrap(c).minor THEN "Minor"
             ELSE IF Unwrap(l).major = Unwrap(c).major /\ Unwrap(l).minor = Unwrap(c).minor
                     /\ Unwrap(l).patch > Unwrap(c).patch THEN "Patch"
             ELSE "None"
        ELSE "Unknown"

\* VersionComparator::classify_update
classify_update(current, latest) ==
    LET c == Version_parse(current)
        l == Version_parse(latest)
    IN  IF IsSome(c) /\ IsSome(l)
        THEN IF Unwrap(l).major > Unwrap(c).major THEN "Major"
             ELSE IF Unwrap(l).minor > Unwrap(c).minor THEN "Minor"
             ELSE IF Unwrap(l).patch > Unwrap(c).patch THEN "Patch"
             ELSE "None"
        ELSE "Unknown"

(* --------------------------- version.rs -------------------------------- *)
\* the numeric components the version pool ranges over
MaxPart == 2

\* the pre-release tags the model writes, in the order semver ranks them
PreTags == <<"alpha", "beta">>

\* semver::Prerelease as Ord: the empty tag (a release) ranks above every tag
pre_rank(pre) == IF pre = "" THEN Len(PreTags) + 1 ELSE CHOOSE i \in 1..Len(PreTags) : PreTags[i] = pre

\* semver::Version as Ord: major, minor, patch, then the pre-release tag
Version_lt(a, b) ==
    \/ a.major < b.major
    \/ a.major = b.major /\ a.minor < b.minor
    \/ a.major = b.major /\ a.minor = b.minor /\ a.patch < b.patch
    \/ a.major = b.major /\ a.minor = b.minor /\ a.patch = b.patch /\ pre_rank(a.pre) < pre_rank(b.pre)

Version_ge(a, b) == ~Version_lt(a, b)

\* str::split('.').count(): the dots of the model's strings stand between
\* the numeric components
split_count(s) == IF Len(s.parts) = 0 THEN 1 ELSE Len(s.parts)

\* format!("{}{suffix}", version): the zeros land behind the last character
format_zeros(s, n) ==
    IF s.pre # "" THEN [s EXCEPT !.pre = IF n = 2 THEN s.pre \o ".0.0" ELSE s.pre \o ".0"]
    ELSE IF Len(s.parts) > 0 THEN [s EXCEPT !.parts = IF n = 2 THEN s.parts \o <<0, 0>> ELSE s.parts \o <<0>>]
    ELSE [s EXCEPT !.prefix = IF n = 2 THEN s.prefix \o ".0.0" ELSE s.prefix \o ".0"]

\* VersionComparator::pad_version
pad_version(version) ==
    IF split_count(version) = 1 THEN format_zeros(version, 2)
    ELSE IF split_count(version) = 2 THEN format_zeros(version, 1)
    ELSE version

\* VersionComparator::parse_version
parse_version(version) == Version_parse(pad_version(version))

\* the caret rule without its branch for major 0
parse_caret_range_uniform(constraint, version) ==
    LET c == parse_version(constraint)
        v == Version_parse(version)
    IN  IF ~IsSome(c) THEN FALSE
        ELSE IF ~IsSome(v) THEN FALSE
        ELSE IF Unwrap(v).major # Unwrap(c).major THEN FALSE
        ELSE IF Unwrap(v).minor > Unwrap(c).minor THEN TRUE
        ELSE Unwrap(v).minor = Unwrap(c).minor /\ Unwrap(v).patch >= Unwrap(c).patch

\* VersionComparator::parse_caret_range
parse_caret_range(constraint, version) ==
    LET c == parse_version(constraint)
        v == Version_parse(version)
    IN  IF ~IsSome(c) THEN FALSE
        ELSE IF ~IsSome(v) THEN FALSE
        ELSE IF Unwrap(c).major = 0
             THEN Unwrap(v).major = 0 /\ Unwrap(v).minor = Unwrap(c).minor
                  /\ Unwrap(v).patch >= Unwrap(c).patch
        ELSE IF Unwrap(v).major # Unwrap(c).major THEN FALSE
        ELSE IF Unwrap(v).minor > Unwrap(c).minor THEN TRUE
        ELSE IF Unwrap(v).minor = Unwrap(c).minor /\ Unwrap(v).patch >= Unwrap(c).patch THEN TRUE
        ELSE FALSE

\* the tilde rule without its floor
parse_tilde_range_unfloored(constraint, version) ==
    LET c == Version_parse(pad_version(constraint))
        v == Version_parse(version)
    IN  IF ~IsSome(c) THEN FALSE
        ELSE IF ~IsSome(v) THEN FALSE
        ELSE IF split_count(constraint) = 1 THEN Unwrap(v).major = Unwrap(c).major
        ELSE IF Unwrap(v).major # Unwrap(c).major THEN FALSE
        ELSE Unwrap(v).minor = Unwrap(c).minor

\* the tilde rule that pins the minor however the constraint is written
parse_tilde_range_pinned(constraint, version) ==
    LET c == Version_parse(pad_version(constraint))
        v == Version_parse(version)
    IN  IF ~IsSome(c) THEN FALSE
        ELSE IF ~IsSome(v) THEN FALSE
        ELSE IF Version_lt(Unwrap(v), Unwrap(c)) THEN FALSE
        ELSE IF Unwrap(v).major # Unwrap(c).major THEN FALSE
        ELSE Unwrap(v).minor = Unwrap(c).minor

\* VersionComparator::parse_tilde_range
parse_tilde_range(constraint, version) ==
    LET c == Version_parse(pad_version(constraint))
        v == Version_parse(version)
    IN  IF ~IsSome(c) THEN FALSE
        ELSE IF ~IsSome(v) THEN FALSE
        ELSE IF Version_lt(Unwrap(v), Unwrap(c)) THEN FALSE
        ELSE IF split_count(constraint) = 1 THEN Unwrap(v).major = Unwrap(c).major
        ELSE IF Unwrap(v).major # Unwrap(c).major THEN FALSE
        ELSE Unwrap(v).minor = Unwrap(c).minor

\* A range expression as written: a lone "*" or a comma-separated list of
\* comparators, each an operator in front of a version string.
Comparator(op, v) == [op |-> op, v |-> v]
RangeString(wildcard, comparators) == [wildcard |-> wildcard, comparators |-> comparators]

\* semver::VersionReq::parse: "*" alone is the requirement every release
\* meets; an expression without a comparator, or with one whose version does
\* not parse, is an error
VersionReq_parse(expr) ==
    IF expr.wildcard
    THEN IF expr.comparators = <<>> THEN Some(<<>>) ELSE None
    ELSE IF expr.comparators = <<>> THEN None
    ELSE IF \A i \in 1..Len(expr.comparators) : IsSome(Version_parse(expr.comparators[i].v))
    THEN Some([i \in 1..Len(expr.comparators) |->
                  Comparator(expr.comparators[i].op, Unwrap(Version_parse(expr.comparators[i].v)))])
    ELSE None

\* one comparator of semver::VersionReq::matches: ">=", "<", and the caret
\* a comparator written without an operator stands for
matches_comparator(cmp, ver) ==
    IF cmp.op = ">=" THEN Version_ge(ver, cmp.v)
    ELSE IF cmp.op = "<" THEN Version_lt(ver, cmp.v)
    ELSE /\ Version_ge(ver, cmp.v)
         /\ ver.major = cmp.v.major
         /\ (cmp.v.major = 0 => ver.minor = cmp.v.minor)
         /\ (cmp.v.major = 0 /\ cmp.v.minor = 0 => ver.patch = cmp.v.patch)

\* semver::VersionReq::matches: every comparator holds, and a pre-release
\* version is only met by a comparator that names a pre-release of its triple
VersionReq_matches(req, ver) ==
    /\ \A i \in 1..Len(req) : matches_comparator(req[i], ver)
    /\ \/ ver.pre = ""
       \/ \E i \in 1..Len(req) :
             /\ req[i].v.major = ver.major /\ req[i].v.minor = ver.minor
             /\ req[i].v.patch = ver.patch /\ req[i].v.pre # ""

\* enum VersionConstraint: the variant and the string it carries
VersionConstraint(kind, v) == [kind |-> kind, v |-> v]

\* VersionComparator::satisfies
satisfies(constraint, version) ==
    IF constraint.kind = "Exact" THEN version = constraint.v
    ELSE IF constraint.kind = "Range"
    THEN IF IsSome(VersionReq_parse(constraint.v)) /\ IsSome(Version_parse(version))
         THEN VersionReq_matches(Unwrap(VersionReq_parse(constraint.v)), Unwrap(Version_parse(version)))
         ELSE FALSE
    ELSE IF constraint.kind = "GreaterThanEqual"
    THEN IF IsSome(parse_version(constraint.v)) /\ IsSome(Version_parse(version))
         THEN Version_ge(Unwrap(Version_parse(version)), Unwrap(parse_version(constraint.v)))
         ELSE FALSE
    ELSE IF constraint.kind = "Caret" THEN parse_caret_range(constraint.v, version)
    ELSE parse_tilde_range(constraint.v, version)

\* a version requirement as composer.json declares it: the operator in front
\* ("^", "~", ">=", ">" or none) and the version string behind it
DeclaredString(op, v) == [op |-> op, v |-> v]

\* str::starts_with on the declared string
starts_with(s, prefix) ==
    IF prefix = ">" THEN s.op \in {">", ">="} ELSE s.op = prefix

\* composer's parse_constraint
parse_constraint(version_str) ==
    IF starts_with(version_str, "^") THEN VersionConstraint("Caret", version_str.v)
    ELSE IF starts_with(version_str, "~") THEN VersionConstraint("Tilde", version_str.v)
    ELSE IF starts_with(version_str, ">=") THEN VersionConstraint("GreaterThanEqual", version_str.v)
    ELSE IF starts_with(version_str, ">") THEN VersionConstraint("GreaterThanEqual", version_str.v)
    ELSE VersionConstraint("Range", RangeString(FALSE, <<Comparator("", version_str.v)>>))

Dependency(name, version, file) == [name |-> name, version |-> version, file |-> file]

DependencyFile(ecosystem, path) == [ecosystem |-> ecosystem, path |-> path]

UpdateInfo(dependency, latest) ==
    [dependency |-> dependency, current_version |-> dependency.version, latest_version |-> latest]

Vulnerability(id, severity) == [id |-> id, severity |-> severity]

EcosystemScanResult(ecosystem, files_found, dependencies, ups, vulns) ==
    [ecosystem |-> ecosystem, files_found |-> files_found, dependencies |-> dependencies,
     updates |-> ups, vulnerabilities |-> vulns, errors |-> <<>>]

\* ScanSummary::default
ScanSummary_default ==
    [updates_available |-> 0, vulnerabilities_found |-> 0, critical_vulnerabilities |-> 0,
     high_vulnerabilities |-> 0, medium_vulnerabilities |-> 0, low_vulnerabilities |-> 0,
     outdated_dependencies |-> 0, up_to_date_dependencies |-> 0]

\* ScanReport::new; ecosystem_results maps every tag to None or Some(result)
\* (timestamp, scanned_path and elapsed are wall-clock data
\* no operation reads; they are left out)
ScanReport_new ==
    [total_dependency_files |-> 0, total_dependencies |-> 0, summary |-> ScanSummary_default,
     ecosystem_results |-> [e \in Ecosystems |-> None], updates |-> <<>>, vulnerabilities |-> <<>>,
     warnings |-> <<>>, errors |-> <<>>]

\* the match over vuln.severity, for one bucket
CountSeverity(vulns, severity) ==
    Cardinality({i \in 1..Len(vulns) : vulns[i].severity = severity})

\* add_ecosystem_result with the two totals assigned instead of added to
add_ecosystem_result_assigning(self, ecosystem, result) ==
    [self EXCEPT
        !.total_dependency_files = Len(result.files_found),
        !.total_dependencies = Len(result.dependencies),
        !.summary = [@ EXCEPT
            !.updates_available = @ + Len(result.updates),
            !.low_vulnerabilities =
                @ + Len(result.vulnerabilities) + CountSeverity(result.vulnerabilities, "Low"),
            !.medium_vulnerabilities = @ + CountSeverity(result.vulnerabilities, "Medium"),
            !.high_vulnerabilities = @ + CountSeverity(result.vulnerabilities, "High"),
            !.critical_vulnerabilities = @ + CountSeverity(result.vulnerabilities, "Critical"),
            !.outdated_dependencies = @ + Len(result.updates),
            !.up_to_date_dependencies =
                @ + saturating_sub(Len(result.dependencies), Len(result.updates))],
        !.ecosystem_results = [@ EXCEPT ![ecosystem] = Some(result)]]

\* ScanReport::add_ecosystem_result
add_ecosystem_result(self, ecosystem, result) ==
    [self EXCEPT
        !.total_dependency_files = @ + Len(result.files_found),
        !.total_dependencies = @ + Len(result.dependencies),
        !.summary = [@ EXCEPT
            !.updates_available = @ + Len(result.updates),
            !.low_vulnerabilities =
                @ + Len(result.vulnerabilities) + CountSeverity(result.vulnerabilities, "Low"),
            !.medium_vulnerabilities = @ + CountSeverity(result.vulnerabilities, "Medium"),
            !.high_vulnerabilities = @ + CountSeverity(result.vulnerabilities, "High"),
            !.critical_vulnerabilities = @ + CountSeverity(result.vulnerabilities, "Critical"),
            !.outdated_dependencies = @ + Len(result.updates),
            !.up_to_date_dependencies =
                @ + saturating_sub(Len(result.dependencies), Len(result.updates))],
        !.ecosystem_results = [@ EXCEPT ![ecosystem] = Some(result)]]

(* ------------------------------ registry ------------------------------- *)
\* a boxed implementation: its identity and what it implements
Impl(id, kind) == [id |-> id, kind |-> kind]

\* PluginRegistry::new
PluginRegistry_new ==
    [detectors |-> <<>>, parsers |-> <<>>, registry_clients |-> <<>>,
     vulnerability_scanners |-> <<>>]

register_detector(reg, ecosystem, impl) ==
    [reg EXCEPT !.detectors = Append(@, [ecosystem |-> ecosystem, impl |-> impl])]

register_parser(reg, ecosystem, impl) ==
    [reg EXCEPT !.parsers = Append(@, [ecosystem |-> ecosystem, impl |-> impl])]

register_registry_client(reg, ecosystem, impl) ==
    [reg EXCEPT !.registry_clients = Append(@, [ecosystem |-> ecosystem, impl |-> impl])]

register_vulnerability_scanner(reg, ecosystem, impl) ==
    [reg EXCEPT !.vulnerability_scanners = Append(@, [ecosystem |-> ecosystem, impl |-> impl])]

\* one register_* call: the capability, the ecosystem the implementation
\* declares, and the kind of implementation
RegCall(cap, ecosystem, kind) == [cap |-> cap, ecosystem |-> ecosystem, kind |-> kind]

RegCalls ==
    {RegCall("detector", e, "detector") : e \in Ecosystems}
    \cup {RegCall("parser", e, "parser") : e \in Ecosystems}
    \cup {RegCall("registry_client", e, k) : e \in Ecosystems, k \in {"default", "packagist"}}
    \cup {RegCall("vulnerability_scanner", e, "scanner") : e \in Ecosystems}

\* the register_* call c, made as the id-th registration
register(reg, c, id) ==
    CASE c.cap = "detector" -> register_detector(reg, c.ecosystem, Impl(id, c.kind))
      [] c.cap = "parser" -> register_parser(reg, c.ecosystem, Impl(id, c.kind))
      [] c.cap = "registry_client" -> register_registry_client(reg, c.ecosystem, Impl(id, c.kind))
      [] c.cap = "vulnerability_scanner" ->
            register_vulnerability_scanner(reg, c.ecosystem, Impl(id, c.kind))

RECURSIVE RegistryAfter(_)
\* the registry a sequence of register_* calls builds
RegistryAfter(calls) ==
    IF calls = <<>> THEN PluginRegistry_new
    ELSE register(RegistryAfter(SubSeq(calls, 1, Len(calls) - 1)), calls[Len(calls)], Len(calls))

\* Iterator::rfind: the last pair registered for the ecosystem
find_last(list, ecosystem) ==
    IF \E i \in 1..Len(list) : list[i].ecosystem = ecosystem
    THEN Some(list[CHOOSE i \in 1..Len(list) :
                     /\ list[i].ecosystem = ecosystem
                     /\ \A j \in (i + 1)..Len(list) : list[j].ecosystem # ecosystem].impl)
    ELSE None

\* .iter().find(|(e, _)| e == ecosystem).map(|(_, x)| x.as_ref())
find_first(list, ecosystem) ==
    IF \E i \in 1..Len(list) : list[i].ecosystem = ecosystem
    THEN Some(list[CHOOSE i \in 1..Len(list) :
                     /\ list[i].ecosystem = ecosystem
                     /\ \A j \in 1..(i - 1) : list[j].ecosystem # ecosystem].impl)
    ELSE None

get_detector(reg, ecosystem) == find_first(reg.detectors, ecosystem)
get_parser(reg, ecosystem) == find_first(reg.parsers, ecosystem)
get_registry_client(reg, ecosystem) == find_first(reg.registry_clients, ecosystem)
get_vulnerability_scanner(reg, ecosystem) == find_first(reg.vulnerability_scanners, ecosystem)

(* ------------------------------ Plugin --------------------------------- *)
Capabilities == <<"detector", "parser", "registry_client", "vulnerability_scanner">>

\* the kind of implementation a create_* method boxes
kind_of(cap) ==
    CASE cap = "detector" -> "detector"
      [] cap = "parser" -> "parser"
      [] cap = "registry_client" -> "packagist"
      [] cap = "vulnerability_scanner" -> "scanner"

\* a type implementing Plugin: the create_* methods its `impl Plugin for` block
\* overrides, and the create_* methods of its own `impl` block
PluginType(name, ecosystem, overridden, inherent) ==
    [name |-> name, ecosystem |-> ecosystem, overridden |-> overridden, inherent |-> inherent]

\* ComposerPlugin::new(): the four create_* methods are inherent, the
\* `impl rensa_core::Plugin for ComposerPlugin` block has name and ecosystem only
ComposerPlugin_new ==
    PluginType("composer", "Composer", {},
               {"detector", "parser", "registry_client", "vulnerability_scanner"})

\* Plugin::create_*, called through the bound P: Plugin: the override of the
\* `impl Plugin for` block, or else the trait's default, which is None
Plugin_create(plugin, cap) ==
    IF cap \in plugin.overridden THEN Some(RegCall(cap, plugin.ecosystem, kind_of(cap))) ELSE None

\* the register_* calls PluginRegistry::register_plugin makes, in its order
register_plugin_calls(plugin) ==
    LET made(cap) == IF IsSome(Plugin_create(plugin, cap))
                     THEN <<Unwrap(Plugin_create(plugin, cap))>> ELSE <<>>
    IN  made(Capabilities[1]) \o made(Capabilities[2]) \o made(Capabilities[3])
        \o made(Capabilities[4])

\* plugin types register_plugin is given: the shipped ComposerPlugin, and
\* types whose `impl Plugin for` block overrides create_* methods
PluginPool ==
    {ComposerPlugin_new,
     PluginType("composer_trait", "Composer",
                {"detector", "parser", "registry_client", "vulnerability_scanner"}, {}),
     PluginType("npm_trait", "Npm", {"detector"}, {})}

(* ------------------------------ plugins -------------------------------- *)
\* a default that reports only what classify_update calls an update
default_get_update_info_classified(dependency, latest) ==
    IF IsSome(latest)
    THEN IF classify_update(trim_start_matches_v(dependency.version),
                            trim_start_matches_v(Unwrap(latest))) \in {"None", "Unknown"}
         THEN None
         ELSE Some(UpdateInfo(dependency, Unwrap(latest)))
    ELSE None

\* RegistryClient::get_update_info, the trait's default, given what
\* get_latest_version returned
default_get_update_info(dependency, latest) ==
    IF IsSome(latest) THEN Some(UpdateInfo(dependency, Unwrap(latest))) ELSE None

\* PackagistClient::get_update_info, given what get_latest_version returned
packagist_get_update_info(dependency, latest) ==
    IF IsSome(latest)
    THEN LET update_type == classify_update(trim_start_matches_v(dependency.version),
                                            trim_start_matches_v(Unwrap(latest)))
         IN  IF update_type \in {"None", "Unknown"}
             THEN None
             ELSE Some(UpdateInfo(dependency, Unwrap(latest)))
    ELSE None

\* dynamic dispatch on the registered client
get_update_info(client, dependency, latest) ==
    IF client.kind = "packagist"
    THEN packagist_get_update_info(dependency, latest)
    ELSE default_get_update_info(dependency, latest)

\* What the plugins answer comes from these sets.
\* a Detector's files: k files of its own ecosystem, named by detector and position
DetectedFiles(i, ecosystem, k) == [j \in 1..k |-> DependencyFile(ecosystem, <<i, j>>)]

\* the dependencies a Parser may list for a file
DepPool(path) ==
    {Dependency("a", VersionString("", <<1, 0, 0>>, ""), path),
     Dependency("b", VersionString("", <<2, 0, 0>>, ""), path)}

ParsedDeps(path, budget) == UNION {[1..n -> DepPool(path)] : n \in 0..budget}

\* what get_latest_version may answer: nothing, or the newest published version
LatestPool == {None, Some(VersionString("", <<1, 1, 0>>, "")), Some(VersionString("v", <<2, 0, 0>>, ""))}

\* what a VulnerabilityScanner may answer
VulnPool == {<<>>, <<Vulnerability("V1", "Low"), Vulnerability("V2", "Critical")>>}

(* ------------------------------ state ---------------------------------- *)
VARIABLES
    registry,          \* the PluginRegistry: four lists of (ecosystem, implementation)
    pc,                \* where the running operation stands
    detIdx,            \* detect_all: the detector the loop is at
    all_files,         \* detect_all: the files collected so far
    detected,          \* detect_all's result: <<>> (none yet), <<"Err">> or <<"Ok", files>>
    files,             \* scan: the detected files
    fileIdx,           \* scan: the file the outer loop is at
    deps,              \* scan: the dependencies of the current file
    depIdx,            \* scan: the dependency the inner loop is at
    updates,           \* scan: the current file's updates
    vulnerabilities,   \* scan: the current file's vulnerabilities
    report,            \* the ScanReport
    returned,          \* scan's result: <<>> (running), <<"Err">> or <<"Ok", report>>
    outstanding,       \* the plugin calls issued and not yet returned
    reg_calls,         \* history: the register_* calls made, in order
    log,               \* history: every plugin call and return, in order
    folded,            \* history: every result given to add_ecosystem_result, in order
    http_client,       \* the HttpClient: retries and the attached CacheManager, if any
    request,           \* HttpClient::get / post: the call being served, None when idle
    hpc,               \* HttpClient::get / post: where the call stands
    attempt,           \* fetch: the loop variable
    fetched,           \* fetch's outcome: <<>> (running), <<"Ok", v>>, <<"Err", e>> or <<"Panic">>
    http_result,       \* get / post's outcome, same shape
    trace,             \* history: the requests, responses and sleeps of the current fetch
    calls,             \* history: the get / post calls started
    disk,              \* the cache directory: for each key, the entry file's content or None
    now,               \* the system clock, in seconds since the epoch
    procs,             \* the processes sharing the cache directory, each one's position
    observed,          \* history: every file content a reader read
    input,             \* the arguments a version.rs function is called with
    output,            \* what it returned, None before the call
    tree,              \* the directories and files under the cache's base_path
    cache_call         \* the CacheManager working on the tree and its last call

scanVars == <<registry, pc, detIdx, all_files, detected, files, fileIdx, deps, depIdx, updates,
              vulnerabilities, report, returned, outstanding, reg_calls, log, folded>>
httpVars == <<http_client, request, hpc, attempt, fetched, http_result, trace, calls>>
cacheVars == <<disk, now, procs, observed>>
pureVars == <<input, output>>
treeVars == <<tree, cache_call>>
ioVars == <<httpVars, cacheVars, pureVars, treeVars>>

vars == <<scanVars, ioVars>>

registryVars == <<registry, reg_calls>>
detectVars == <<detIdx, all_files, detected>>
fileVars == <<files, fileIdx>>
depVars == <<deps, depIdx, updates, vulnerabilities>>
reportVars == <<report, folded>>

\* a plugin call: the operation, the file (or detector) and the dependency it is for
Call(op, f, d) == [op |-> op, f |-> f, d |-> d]

CallEvent(c) == [t |-> "call", op |-> c.op, f |-> c.f, d |-> c.d, ok |-> TRUE, out |-> <<>>]
RetEvent(c, ok, out) == [t |-> "ret", op |-> c.op, f |-> c.f, d |-> c.d, ok |-> ok, out |-> out]

\* the plugin call the flow of control is suspended on
Pending == CHOOSE c \in outstanding : TRUE

\* issuing a plugin call and suspending on it
Issue(c) ==
    /\ outstanding' = outstanding \cup {c}
    /\ log' = Append(log, CallEvent(c))

\* the awaited plugin call returning
Resume(ok, out) ==
    /\ outstanding' = outstanding \ {Pending}
    /\ log' = Append(log, RetEvent(Pending, ok, out))

\* the dependencies all parsers returned so far
ParsedSoFar ==
    SumSeq([i \in 1..Len(log) |->
              IF log[i].t = "ret" /\ log[i].op = "parse" /\ log[i].ok THEN Len(log[i].out) ELSE 0])

(* ------------------------------ registration --------------------------- *)
\* PluginRegistry::register_detector / register_parser /
\* register_registry_client / register_vulnerability_scanner
Register(c) ==
    /\ pc = "setup"
    /\ Len(reg_calls) < MaxReg
    /\ registry' = register(registry, c, Len(reg_calls) + 1)
    /\ reg_calls' = Append(reg_calls, c)
    /\ UNCHANGED <<ioVars, pc, detectVars, fileVars, depVars, reportVars, returned, outstanding, log>>

\* the event of a register_plugin call
PluginEvent(plugin) ==
    [t |-> "register_plugin", op |-> "register_plugin", f |-> plugin.name, d |-> 0,
     ok |-> TRUE, out |-> <<>>]

PluginsRegistered == SelectSeq(log, LAMBDA ev : ev.t = "register_plugin")

\* PluginRegistry::register_plugin(plugin), as cli::scan::run_scan calls it
\* before scanning
RegisterPlugin(plugin) ==
    /\ pc = "setup"
    /\ Len(PluginsRegistered) < MaxPlugins
    /\ reg_calls' = reg_calls \o register_plugin_calls(plugin)
    /\ registry' = RegistryAfter(reg_calls')
    /\ log' = Append(log, PluginEvent(plugin))
    /\ UNCHANGED <<ioVars, pc, detectVars, fileVars, depVars, reportVars, returned, outstanding>>

(* ------------------------------ detect_all ----------------------------- *)
\* entering PluginRegistry::detect_all: let mut all_files = Vec::new()
DetectAllEnter ==
    /\ detIdx' = 1
    /\ all_files' = <<>>
    /\ detected' = <<>>
    /\ pc' = "detect"

\* a caller of the registry calling detect_all
DetectAllStart ==
    /\ pc = "setup"
    /\ DetectAllEnter
    /\ UNCHANGED <<ioVars, registryVars, fileVars, depVars, reportVars, returned, outstanding, log>>

\* detector.detect(path) is called on the next registered detector
DetectCall ==
    /\ pc = "detect"
    /\ detIdx <= Len(registry.detectors)
    /\ Issue(Call("detect", detIdx, 0))
    /\ pc' = "detect_wait"
    /\ UNCHANGED <<ioVars, registryVars, detectVars, fileVars, depVars, reportVars, returned>>

\* detect returned Ok(found): all_files.extend(found)
DetectReturnOk(found) ==
    /\ pc = "detect_wait"
    /\ Resume(TRUE, found)
    /\ all_files' = all_files \o found
    /\ detIdx' = detIdx + 1
    /\ pc' = "detect"
    /\ UNCHANGED <<ioVars, registryVars, detected, fileVars, depVars, reportVars, returned>>

\* detect returned Err and the loop goes on to the next detector
DetectReturnErr_continue ==
    /\ pc = "detect_wait"
    /\ Resume(FALSE, <<>>)
    /\ detIdx' = detIdx + 1
    /\ pc' = "detect"
    /\ UNCHANGED <<ioVars, registryVars, all_files, detected, fileVars, depVars, reportVars, returned>>

\* detect returned Err: `?` leaves detect_all with the error, all_files is dropped
DetectReturnErr ==
    /\ pc = "detect_wait"
    /\ Resume(FALSE, <<>>)
    /\ all_files' = <<>>
    /\ detected' = <<"Err">>
    /\ pc' = "detect_end"
    /\ UNCHANGED <<ioVars, registryVars, detIdx, fileVars, depVars, reportVars, returned>>

\* the loop is over: Ok(all_files)
DetectAllReturn ==
    /\ pc = "detect"
    /\ detIdx > Len(registry.detectors)
    /\ detected' = <<"Ok", all_files>>
    /\ pc' = "detect_end"
    /\ UNCHANGED <<ioVars, registryVars, detIdx, all_files, fileVars, depVars, reportVars, returned,
                   outstanding, log>>

(* ------------------------------ Scanner::scan -------------------------- *)
\* Vec::insert(0, x)
push_front(vec, x) == <<x>> \o vec

\* Vec::push
push(vec, x) == Append(vec, x)

\* Vec::extend
extend(vec, xs) == vec \o xs

\* the file the outer loop is at, and what the registry resolves for it
File == files[fileIdx]
Parser == get_parser(registry, File.ecosystem)
Client == get_registry_client(registry, File.ecosystem)
VulnScanner == get_vulnerability_scanner(registry, File.ecosystem)
Dep == deps[depIdx]

\* scan begins: ScanReport::new, then detect_all is entered
ScanStart ==
    /\ pc = "start"
    /\ report' = ScanReport_new
    /\ DetectAllEnter
    /\ UNCHANGED <<ioVars, registryVars, fileVars, depVars, folded, returned, outstanding, log>>

\* detect_all(...).await? returned Ok(files)
ScanDetected ==
    /\ pc = "detect_end"
    /\ detected[1] = "Ok"
    /\ files' = detected[2]
    /\ fileIdx' = 1
    /\ pc' = "files"
    /\ UNCHANGED <<ioVars, registryVars, detectVars, depVars, reportVars, returned, outstanding, log>>

\* detect_all(...).await? returned Err: scan returns it
ScanDetectFailed ==
    /\ pc = "detect_end"
    /\ detected[1] = "Err"
    /\ returned' = <<"Err">>
    /\ pc' = "done"
    /\ UNCHANGED <<ioVars, registryVars, detectVars, fileVars, depVars, reportVars, outstanding, log>>

\* no parser for the file's ecosystem and the scan gives up
NoParser_abort ==
    /\ pc = "files"
    /\ fileIdx <= Len(files)
    /\ ~IsSome(Parser)
    /\ returned' = <<"Err">>
    /\ pc' = "done"
    /\ UNCHANGED <<ioVars, registryVars, detectVars, fileVars, depVars, reportVars, outstanding, log>>

\* None => { report.warnings.push(...); continue; }
NoParser ==
    /\ pc = "files"
    /\ fileIdx <= Len(files)
    /\ ~IsSome(Parser)
    /\ report' = [report EXCEPT !.warnings = push(@, File.ecosystem)]
    /\ fileIdx' = fileIdx + 1
    /\ UNCHANGED <<ioVars, registryVars, pc, detectVars, files, depVars, folded, returned, outstanding, log>>

\* Some(p) => p.parse(&file) is called
ParseCall ==
    /\ pc = "files"
    /\ fileIdx <= Len(files)
    /\ IsSome(Parser)
    /\ Issue(Call("parse", fileIdx, 0))
    /\ pc' = "parse_wait"
    /\ UNCHANGED <<ioVars, registryVars, detectVars, fileVars, depVars, reportVars, returned>>

\* parse returned Ok(ds): the ecosystem result and the two lists are set up
ParseReturnOk(ds) ==
    /\ pc = "parse_wait"
    /\ Resume(TRUE, ds)
    /\ deps' = ds
    /\ depIdx' = 1
    /\ updates' = <<>>
    /\ vulnerabilities' = <<>>
    /\ pc' = "deps"
    /\ UNCHANGED <<ioVars, registryVars, detectVars, fileVars, reportVars, returned>>

\* parse returned Err: `?` makes scan return it
ParseReturnErr ==
    /\ pc = "parse_wait"
    /\ Resume(FALSE, <<>>)
    /\ returned' = <<"Err">>
    /\ pc' = "done"
    /\ UNCHANGED <<ioVars, registryVars, detectVars, fileVars, depVars, reportVars>>

\* the update lookup and the vulnerability lookup of a dependency issued together
UpdateCall_joined ==
    /\ pc = "deps"
    /\ depIdx <= Len(deps)
    /\ IsSome(Client)
    /\ outstanding' = outstanding \cup {Call("update", fileIdx, depIdx), Call("vuln", fileIdx, depIdx)}
    /\ log' = log \o <<CallEvent(Call("update", fileIdx, depIdx)), CallEvent(Call("vuln", fileIdx, depIdx))>>
    /\ pc' = "update_wait"
    /\ UNCHANGED <<ioVars, registryVars, detectVars, fileVars, depVars, reportVars, returned>>

\* if let Some(client) = registry_client: client.get_update_info(&dep) is called
UpdateCall ==
    /\ pc = "deps"
    /\ depIdx <= Len(deps)
    /\ IsSome(Client)
    /\ Issue(Call("update", fileIdx, depIdx))
    /\ pc' = "update_wait"
    /\ UNCHANGED <<ioVars, registryVars, detectVars, fileVars, depVars, reportVars, returned>>

\* no registry client for the ecosystem: on to the vulnerability lookup
UpdateSkip ==
    /\ pc = "deps"
    /\ depIdx <= Len(deps)
    /\ ~IsSome(Client)
    /\ pc' = "vuln"
    /\ UNCHANGED <<ioVars, registryVars, detectVars, fileVars, depVars, reportVars, returned, outstanding, log>>

\* an update pushed twice for one dependency
UpdatesAfter_twice(latest) ==
    LET info == get_update_info(Unwrap(Client), Dep, latest)
    IN  IF IsSome(info) THEN push(push(updates, Unwrap(info)), Unwrap(info)) ELSE updates

\* what UpdateReturnOk leaves in updates: if let Some(info) = ... { updates.push(info) }
UpdatesAfter(latest) ==
    LET info == get_update_info(Unwrap(Client), Dep, latest)
    IN  IF IsSome(info) THEN push(updates, Unwrap(info)) ELSE updates

\* get_update_info returned Ok, the registry having answered latest
UpdateReturnOk(latest) ==
    /\ pc = "update_wait"
    /\ Resume(TRUE, latest)
    /\ updates' = UpdatesAfter(latest)
    /\ pc' = "vuln"
    /\ UNCHANGED <<ioVars, registryVars, detectVars, fileVars, deps, depIdx, vulnerabilities, reportVars,
                   returned>>

\* get_update_info returned Err and the scan goes on to the vulnerability lookup
UpdateReturnErr_swallowed ==
    /\ pc = "update_wait"
    /\ Resume(FALSE, <<>>)
    /\ pc' = "vuln"
    /\ UNCHANGED <<ioVars, registryVars, detectVars, fileVars, depVars, reportVars, returned>>

\* get_update_info returned Err: `?` makes scan return it
UpdateReturnErr ==
    /\ pc = "update_wait"
    /\ Resume(FALSE, <<>>)
    /\ returned' = <<"Err">>
    /\ pc' = "done"
    /\ UNCHANGED <<ioVars, registryVars, detectVars, fileVars, depVars, reportVars>>

\* if let Some(scanner) = vulnerability_scanner: scanner.scan(&dep) is called
VulnCall ==
    /\ pc = "vuln"
    /\ IsSome(VulnScanner)
    /\ Issue(Call("vuln", fileIdx, depIdx))
    /\ pc' = "vuln_wait"
    /\ UNCHANGED <<ioVars, registryVars, detectVars, fileVars, depVars, reportVars, returned>>

\* no vulnerability scanner for the ecosystem: on to the next dependency
VulnSkip ==
    /\ pc = "vuln"
    /\ ~IsSome(VulnScanner)
    /\ depIdx' = depIdx + 1
    /\ pc' = "deps"
    /\ UNCHANGED <<ioVars, registryVars, detectVars, fileVars, deps, updates, vulnerabilities, reportVars,
                   returned, outstanding, log>>

\* scanner.scan returned Ok(vulns): vulnerabilities.extend(vulns)
VulnReturnOk(vulns) ==
    /\ pc = "vuln_wait"
    /\ Resume(TRUE, vulns)
    /\ vulnerabilities' = extend(vulnerabilities, vulns)
    /\ depIdx' = depIdx + 1
    /\ pc' = "deps"
    /\ UNCHANGED <<ioVars, registryVars, detectVars, fileVars, deps, updates, reportVars, returned>>

\* scanner.scan returned Err and scan returns it
VulnReturnErr_propagated ==
    /\ pc = "vuln_wait"
    /\ Resume(FALSE, <<>>)
    /\ returned' = <<"Err">>
    /\ pc' = "done"
    /\ UNCHANGED <<ioVars, registryVars, detectVars, fileVars, depVars, reportVars>>

\* scanner.scan returned Err: `if let Ok(vulns)` does not match, nothing is added
VulnReturnErr ==
    /\ pc = "vuln_wait"
    /\ Resume(FALSE, <<>>)
    /\ depIdx' = depIdx + 1
    /\ pc' = "deps"
    /\ UNCHANGED <<ioVars, registryVars, detectVars, fileVars, deps, updates, vulnerabilities, reportVars,
                   returned>>

\* the EcosystemScanResult of the current file, as the inner loop leaves it
CurrentResult ==
    EcosystemScanResult(File.ecosystem, <<File.path>>, deps, updates, vulnerabilities)

\* the result of the file folded twice
Fold_twice ==
    /\ pc = "deps"
    /\ depIdx > Len(deps)
    /\ report' = add_ecosystem_result(add_ecosystem_result(report, File.ecosystem, CurrentResult),
                                      File.ecosystem, CurrentResult)
    /\ folded' = Append(Append(folded, CurrentResult), CurrentResult)
    /\ fileIdx' = fileIdx + 1
    /\ pc' = "files"
    /\ UNCHANGED <<ioVars, registryVars, detectVars, files, depVars, returned, outstanding, log>>

\* the inner loop is over: report.add_ecosystem_result(ecosystem, ecosystem_result)
Fold ==
    /\ pc = "deps"
    /\ depIdx > Len(deps)
    /\ report' = add_ecosystem_result(report, File.ecosystem, CurrentResult)
    /\ folded' = Append(folded, CurrentResult)
    /\ fileIdx' = fileIdx + 1
    /\ pc' = "files"
    /\ UNCHANGED <<ioVars, registryVars, detectVars, files, depVars, returned, outstanding, log>>

\* the outer loop is over: Ok(report)
ScanReturn ==
    /\ pc = "files"
    /\ fileIdx > Len(files)
    /\ returned' = <<"Ok", report>>
    /\ pc' = "done"
    /\ UNCHANGED <<ioVars, registryVars, detectVars, fileVars, depVars, reportVars, outstanding, log>>

(* ------------------------------ ScanReport alone ----------------------- *)
\* the results handed to add_ecosystem_result by an arbitrary caller
PoolDeps == <<Dependency("a", VersionString("", <<1, 0, 0>>, ""), <<1, 1>>),
              Dependency("b", VersionString("", <<2, 0, 0>>, ""), <<1, 1>>)>>

PoolUpdates == <<UpdateInfo(PoolDeps[1], VersionString("", <<1, 1, 0>>, "")),
                 UpdateInfo(PoolDeps[2], VersionString("", <<1, 1, 0>>, ""))>>

PoolVulns ==
    {<<>>,
     <<Vulnerability("V1", "Low"), Vulnerability("V2", "Critical")>>,
     <<Vulnerability("V3", "High"), Vulnerability("V4", "Medium"), Vulnerability("V5", "Unknown")>>}

\* (number of dependencies, number of updates) of a pooled result
PoolShapes == {<<0, 0>>, <<2, 1>>, <<1, 2>>}

ResultPool ==
    {EcosystemScanResult(e, [j \in 1..nf |-> <<1, j>>], SubSeq(PoolDeps, 1, sh[1]),
                         SubSeq(PoolUpdates, 1, sh[2]), vs) :
        e \in Ecosystems, nf \in {1, 2}, sh \in PoolShapes, vs \in PoolVulns}

\* report.add_ecosystem_result(result.ecosystem, result), called from outside a scan
AddEcosystemResult(result) ==
    /\ pc = "report"
    /\ Len(folded) < MaxFolds
    /\ report' = add_ecosystem_result(report, result.ecosystem, result)
    /\ folded' = Append(folded, result)
    /\ UNCHANGED <<ioVars, registryVars, pc, detectVars, fileVars, depVars, returned, outstanding, log>>

(* ------------------------------ cache.rs ------------------------------- *)
\* const DEFAULT_TTL, in seconds
DEFAULT_TTL == 86400

\* the payloads cached and fetched: serde values, as the sequence of their parts
Payloads == {<<"a">>, <<"b", "b">>}

\* CacheEntry::new, the clock reading t
CacheEntry_new(data, ttl_seconds, t) ==
    [data |-> data, timestamp |-> t, ttl_seconds |-> ttl_seconds]

\* is_expired with the bound itself counted as expired
is_expired_inclusive(entry, elapsed) ==
    IF entry.ttl_seconds = 0 THEN TRUE ELSE elapsed >= entry.timestamp + entry.ttl_seconds

\* is_expired without the test on ttl_seconds = 0
is_expired_by_age_only(entry, elapsed) == elapsed > entry.timestamp + entry.ttl_seconds

\* CacheEntry::is_expired, the clock reading elapsed
is_expired(entry, elapsed) ==
    IF entry.ttl_seconds = 0 THEN TRUE ELSE elapsed > entry.timestamp + entry.ttl_seconds

\* one token of an entry file
Token(f, s, n) == [f |-> f, s |-> s, n |-> n]

\* serde_json::to_string_pretty(&entry): the data, then timestamp, then ttl_seconds
to_string_pretty(entry) ==
    [i \in 1..Len(entry.data) |-> Token("data", entry.data[i], 0)]
        \o <<Token("timestamp", "", entry.timestamp),
             Token("ttl_seconds", "", entry.ttl_seconds)>>

\* serde_json::from_str::<CacheEntry<T>>(&content): <<"Ok", entry>> or <<"Err">>
from_str(content) ==
    LET n == Len(content)
    IN  IF /\ n >= 3
           /\ content[n].f = "ttl_seconds"
           /\ content[n - 1].f = "timestamp"
           /\ \A i \in 1..(n - 2) : content[i].f = "data"
        THEN <<"Ok", [data |-> [i \in 1..(n - 2) |-> content[i].s],
                      timestamp |-> content[n - 1].n,
                      ttl_seconds |-> content[n].n]>>
        ELSE <<"Err">>

\* CacheManager::new and with_ttl
CacheManager_new == [default_ttl |-> DEFAULT_TTL]
with_ttl(self, ttl) == [self EXCEPT !.default_ttl = ttl]

\* the opening of the file by fs::write: created or truncated
truncated == Some(<<>>)

\* the write of buf at the start of a file holding old
written(old, buf) ==
    [i \in 1..(IF Len(old) > Len(buf) THEN Len(old) ELSE Len(buf)) |->
        IF i <= Len(buf) THEN buf[i] ELSE old[i]]

\* CacheManager::get on a file nobody else touches, the clock reading elapsed:
\* <<"Ok", None>>, <<"Ok", Some(entry)>> or <<"Err">>
CacheManager_get(file, elapsed) ==
    IF ~IsSome(file) THEN <<"Ok", None>>
    ELSE LET parsed == from_str(Unwrap(file))
         IN  IF parsed[1] = "Err" THEN <<"Err">>
             ELSE IF is_expired(parsed[2], elapsed) THEN <<"Ok", None>>
             ELSE <<"Ok", Some(parsed[2])>>

\* the file CacheManager::set leaves when nobody else touches it
CacheManager_set(self, data, t) ==
    Some(to_string_pretty(CacheEntry_new(data, self.default_ttl, t)))

(* ------------------------------ CacheManager, step by step ------------- *)
\* the processes sharing one cache directory
Procs == {1, 2}

\* the key the processes work on
SharedKey == <<"a.json">>

\* what an operation left behind: the operation, the file content it read (if
\* it read any), the clock reading it compared with, and its result
Outcome(op, read, at, out) == [op |-> op, read |-> read, at |-> at, out |-> out]

\* a process between two operations on its CacheManager, with the number of
\* operations it is still to make
Proc(cache, left) ==
    [cache |-> cache, pc |-> "idle", buf |-> <<>>, arg |-> None, last_set |-> None,
     left |-> left, res |-> Outcome("none", None, 0, <<>>)]

\* a process free to start an operation
MayStart(p) ==
    /\ procs[p].pc = "idle"
    /\ procs[p].left > 0

Finish(p, op, read, at, out) ==
    [procs EXCEPT ![p].pc = "idle", ![p].res = Outcome(op, read, at, out)]

\* the clock advancing; the HttpClient reads it only when it starts a call or
\* has slept
Tick ==
    /\ now < MaxNow
    /\ hpc \in {"idle", "sleep"}
    /\ now' = now + 1
    /\ UNCHANGED <<scanVars, pureVars, treeVars, httpVars, disk, procs, observed>>

\* CacheManager::set up to the entry being serialized
SetStart(p, data) ==
    /\ MayStart(p)
    /\ procs' = [procs EXCEPT
          ![p].pc = "set_open",
          ![p].left = @ - 1,
          ![p].buf = to_string_pretty(CacheEntry_new(data, procs[p].cache.default_ttl, now)),
          ![p].arg = Some([data |-> data, at |-> now]),
          ![p].last_set = None]
    /\ UNCHANGED <<scanVars, pureVars, treeVars, httpVars, disk, now, observed>>

\* create_dir_all or the opening of the file fails: Err(WriteError)
SetOpenErr(p) ==
    /\ procs[p].pc = "set_open"
    /\ procs' = Finish(p, "set", None, now, <<"Err">>)
    /\ UNCHANGED <<scanVars, pureVars, treeVars, httpVars, disk, now, observed>>

\* fs::write opens the file, creating or truncating it
SetOpen(p) ==
    /\ procs[p].pc = "set_open"
    /\ disk' = [disk EXCEPT ![SharedKey] = truncated]
    /\ procs' = [procs EXCEPT ![p].pc = "set_write"]
    /\ UNCHANGED <<scanVars, pureVars, treeVars, httpVars, now, observed>>

\* fs::write writes the content; a file unlinked since it was opened stays unlinked
SetWrite(p) ==
    /\ procs[p].pc = "set_write"
    /\ disk' = [disk EXCEPT ![SharedKey] =
                   IF IsSome(@) THEN Some(written(Unwrap(@), procs[p].buf)) ELSE None]
    /\ procs' = [Finish(p, "set", None, now, <<"Ok">>) EXCEPT ![p].last_set = procs[p].arg]
    /\ UNCHANGED <<scanVars, pureVars, treeVars, httpVars, now, observed>>

\* the write fails after the file was opened: Err(WriteError)
SetWriteErr(p) ==
    /\ procs[p].pc = "set_write"
    /\ procs' = Finish(p, "set", None, now, <<"Err">>)
    /\ UNCHANGED <<scanVars, pureVars, treeVars, httpVars, disk, now, observed>>

\* CacheManager::get: if !cache_path.exists() { return Ok(None) }
GetStart(p) ==
    /\ MayStart(p)
    /\ procs' = IF IsSome(disk[SharedKey])
                THEN [procs EXCEPT ![p].pc = "get_read", ![p].left = @ - 1]
                ELSE [Finish(p, "get", None, now, <<"Ok", None>>) EXCEPT ![p].left = @ - 1]
    /\ UNCHANGED <<scanVars, pureVars, treeVars, httpVars, disk, now, observed>>

\* a read that takes a file it cannot parse for a missing one
GetRead_lenient(p) ==
    /\ procs[p].pc = "get_read"
    /\ IF ~IsSome(disk[SharedKey])
       THEN /\ procs' = Finish(p, "get", None, now, <<"Err">>)
            /\ UNCHANGED observed
       ELSE /\ observed' = observed \cup {Unwrap(disk[SharedKey])}
            /\ procs' = IF from_str(Unwrap(disk[SharedKey]))[1] = "Err"
                        THEN Finish(p, "get", disk[SharedKey], now, <<"Ok", None>>)
                        ELSE [procs EXCEPT ![p].pc = "get_check",
                                           ![p].buf = Unwrap(disk[SharedKey])]
    /\ UNCHANGED <<scanVars, pureVars, treeVars, httpVars, disk, now>>

\* fs::read_to_string and serde_json::from_str, each with its `?`
GetRead(p) ==
    /\ procs[p].pc = "get_read"
    /\ IF ~IsSome(disk[SharedKey])
       THEN /\ procs' = Finish(p, "get", None, now, <<"Err">>)
            /\ UNCHANGED observed
       ELSE /\ observed' = observed \cup {Unwrap(disk[SharedKey])}
            /\ procs' = IF from_str(Unwrap(disk[SharedKey]))[1] = "Err"
                        THEN Finish(p, "get", disk[SharedKey], now, <<"Err">>)
                        ELSE [procs EXCEPT ![p].pc = "get_check",
                                           ![p].buf = Unwrap(disk[SharedKey])]
    /\ UNCHANGED <<scanVars, pureVars, treeVars, httpVars, disk, now>>

\* if entry.is_expired() { return Ok(None) } Ok(Some(entry))
GetCheck(p) ==
    /\ procs[p].pc = "get_check"
    /\ LET entry == from_str(procs[p].buf)[2]
       IN  procs' = Finish(p, "get", Some(procs[p].buf), now,
                           IF is_expired(entry, now) THEN <<"Ok", None>>
                           ELSE <<"Ok", Some(entry)>>)
    /\ UNCHANGED <<scanVars, pureVars, treeVars, httpVars, disk, now, observed>>

\* CacheManager::clean_expired: the directory is listed
CleanStart(p) ==
    /\ MayStart(p)
    /\ procs' = IF IsSome(disk[SharedKey])
                THEN [procs EXCEPT ![p].pc = "clean_read", ![p].left = @ - 1]
                ELSE [Finish(p, "clean", None, now, <<"Ok">>) EXCEPT ![p].left = @ - 1]
    /\ UNCHANGED <<scanVars, pureVars, treeVars, httpVars, disk, now, observed>>

\* the listed file is read and parsed; a failure of either skips the file
CleanRead(p) ==
    /\ procs[p].pc = "clean_read"
    /\ IF ~IsSome(disk[SharedKey])
       THEN /\ procs' = Finish(p, "clean", None, now, <<"Ok">>)
            /\ UNCHANGED observed
       ELSE /\ observed' = observed \cup {Unwrap(disk[SharedKey])}
            /\ procs' = IF from_str(Unwrap(disk[SharedKey]))[1] = "Err"
                        THEN Finish(p, "clean", disk[SharedKey], now, <<"Ok">>)
                        ELSE [procs EXCEPT ![p].pc = "clean_check",
                                           ![p].buf = Unwrap(disk[SharedKey])]
    /\ UNCHANGED <<scanVars, pureVars, treeVars, httpVars, disk, now>>

\* if entry.is_expired() { fs::remove_file(..)? }
CleanCheck(p) ==
    /\ procs[p].pc = "clean_check"
    /\ procs' = IF is_expired(from_str(procs[p].buf)[2], now)
                THEN [procs EXCEPT ![p].pc = "clean_remove"]
                ELSE Finish(p, "clean", Some(procs[p].buf), now, <<"Ok">>)
    /\ UNCHANGED <<scanVars, pureVars, treeVars, httpVars, disk, now, observed>>

\* fs::remove_file: the file at the path is unlinked, Err(WriteError) if there is none
CleanRemove(p) ==
    /\ procs[p].pc = "clean_remove"
    /\ disk' = [disk EXCEPT ![SharedKey] = None]
    /\ procs' = Finish(p, "clean", Some(procs[p].buf), now,
                       IF IsSome(disk[SharedKey]) THEN <<"Ok">> ELSE <<"Err">>)
    /\ UNCHANGED <<scanVars, pureVars, treeVars, httpVars, now, observed>>

(* ------------------- CacheManager, its directory tree ------------------ *)
\* operations made on one tree
MaxDirOps == 2

\* the namespaces (the dir argument)
Namespaces == {"api", "test"}

\* The keys, as the sequence of their characters (".." taken as one): "a",
\* "A", "p/a", "p:a" and "../test/a".
CacheKeys == {<<"a">>, <<"A">>, <<"p", "/", "a">>, <<"p", ":", "a">>, <<"..", "/", "test", "/", "a">>}

\* str::to_lowercase, character by character
to_lowercase(c) == IF c = "A" THEN "a" ELSE c

\* sanitize_cache_key
sanitize_cache_key(key) ==
    [i \in 1..Len(key) |->
        to_lowercase(IF key[i] = "/" THEN "-" ELSE IF key[i] \in {":", " "} THEN "_" ELSE key[i])]

RECURSIVE split(_)
\* the pieces of s between its '/' characters
split(s) ==
    IF s = <<>> THEN <<<<>>>>
    ELSE LET rest == split(Tail(s))
         IN  IF Head(s) = "/" THEN <<<<>>>> \o rest
             ELSE <<<<Head(s)>> \o Head(rest)>> \o Tail(rest)

\* Path::components of a relative path: the non-empty pieces
components(s) == SelectSeq(split(s), LAMBDA c : c # <<>>)

\* CacheManager::path_for: base_path.join(dir).join(format!("{}.json", key)),
\* as the components below base_path
path_for(dir, key) == <<<<dir>>>> \o components(key \o <<".json">>)

\* a tree: the directories below base_path, and the files with their content
Tree(dirs, contents) == [dirs |-> dirs, files |-> contents]

\* Path::parent
parent(path) == SubSeq(path, 1, Len(path) - 1)

RECURSIVE walk(_, _, _)
\* the directory the components lead to from directory cur, None when one of
\* them is not a directory of the tree or leads above base_path
walk(dirs, cur, comps) ==
    IF comps = <<>> THEN Some(cur)
    ELSE IF Head(comps) = <<"..">>
    THEN IF cur = <<>> THEN None ELSE walk(dirs, parent(cur), Tail(comps))
    ELSE IF (cur \o <<Head(comps)>>) \in dirs
    THEN walk(dirs, cur \o <<Head(comps)>>, Tail(comps))
    ELSE None

\* the place a path names once its ".." are followed, None when the
\* directories on the way do not exist
locate(t, path) ==
    LET d == walk(t.dirs, <<>>, parent(path))
    IN  IF IsSome(d) THEN Some(Unwrap(d) \o <<path[Len(path)]>>) ELSE None

\* Path::exists for a file path
file_exists(t, path) == IsSome(locate(t, path)) /\ Unwrap(locate(t, path)) \in DOMAIN t.files

RECURSIVE create_dir_all(_, _, _)
\* fs::create_dir_all: the directories of the tree once every component exists
create_dir_all(dirs, cur, comps) ==
    IF comps = <<>> THEN dirs
    ELSE IF Head(comps) = <<"..">> THEN create_dir_all(dirs, parent(cur), Tail(comps))
    ELSE create_dir_all(dirs \cup {cur \o <<Head(comps)>>}, cur \o <<Head(comps)>>, Tail(comps))

\* place is inside directory d
Under(d, place) == Len(place) > Len(d) /\ SubSeq(place, 1, Len(d)) = d

\* fs::remove_dir_all
remove_dir_all(t, d) ==
    Tree({x \in t.dirs : x # d /\ ~Under(d, x)},
         [f \in {x \in DOMAIN t.files : ~Under(d, x)} |-> t.files[f]])

\* the tree with content at place
with_file(t, place, content) ==
    Tree(t.dirs, [f \in DOMAIN t.files \cup {place} |-> IF f = place THEN content ELSE t.files[f]])

\* the tree without the files of the set gone
without_files(t, gone) == Tree(t.dirs, [f \in DOMAIN t.files \ gone |-> t.files[f]])

\* CacheManager::set on the tree: the tree it leaves
set_in(t, self, dir, key, data, elapsed) ==
    LET path == path_for(dir, key)
        made == Tree(IF IsSome(walk(t.dirs, <<>>, parent(path))) THEN t.dirs
                     ELSE create_dir_all(t.dirs, <<>>, parent(path)), t.files)
    IN  with_file(made, Unwrap(locate(made, path)),
                  to_string_pretty(CacheEntry_new(data, self.default_ttl, elapsed)))

\* CacheManager::get on the tree
get_in(t, dir, key, elapsed) ==
    CacheManager_get(IF file_exists(t, path_for(dir, key))
                     THEN Some(t.files[Unwrap(locate(t, path_for(dir, key)))])
                     ELSE None, elapsed)

\* CacheManager::clear on the tree: the tree it leaves
clear_in(t, dir) ==
    IF <<<<dir>>>> \in t.dirs
    THEN LET removed == remove_dir_all(t, <<<<dir>>>>)
         IN  Tree(removed.dirs \cup {<<<<dir>>>>}, removed.files)
    ELSE t

\* fs::read_dir(dir_path) with path.is_file(): the files directly in the directory
listed_files(t, dir) == {f \in DOMAIN t.files : parent(f) = <<<<dir>>>>}

\* the listed files clean_expired removes: those that parse and are expired
removable(t, dir, elapsed) ==
    {f \in listed_files(t, dir) :
        /\ from_str(t.files[f])[1] = "Ok"
        /\ is_expired(from_str(t.files[f])[2], elapsed)}

\* CacheManager::clean_expired on the tree: the tree it leaves
clean_expired_in(t, dir, elapsed) == without_files(t, removable(t, dir, elapsed))

\* the CacheManager, the calls it may still make, and the last call with the
\* tree it found
CacheCall(cache, left, op, dir, key, out, before) ==
    [cache |-> cache, left |-> left, op |-> op, dir |-> dir, key |-> key, out |-> out,
     before |-> before]

Made(op, dir, key, out) ==
    CacheCall(cache_call.cache, cache_call.left - 1, op, dir, key, out, tree)

\* CacheManager::set(dir, key, data)
TreeSet(dir, key, data) ==
    /\ cache_call.left > 0
    /\ tree' = set_in(tree, cache_call.cache, dir, key, data, now)
    /\ cache_call' = Made("set", dir, key, <<"Ok">>)
    /\ UNCHANGED <<scanVars, httpVars, cacheVars, pureVars>>

\* CacheManager::get(dir, key)
TreeGet(dir, key) ==
    /\ cache_call.left > 0
    /\ cache_call' = Made("get", dir, key, get_in(tree, dir, key, now))
    /\ UNCHANGED <<scanVars, httpVars, cacheVars, pureVars, tree>>

\* CacheManager::clear(dir)
TreeClear(dir) ==
    /\ cache_call.left > 0
    /\ tree' = clear_in(tree, dir)
    /\ cache_call' = Made("clear", dir, <<>>, <<"Ok">>)
    /\ UNCHANGED <<scanVars, httpVars, cacheVars, pureVars>>

\* CacheManager::clear(dir), create_dir_all failing: Err(WriteError)
TreeClearErr(dir) ==
    /\ cache_call.left > 0
    /\ <<<<dir>>>> \in tree.dirs
    /\ tree' = remove_dir_all(tree, <<<<dir>>>>)
    /\ cache_call' = Made("clear", dir, <<>>, <<"Err">>)
    /\ UNCHANGED <<scanVars, httpVars, cacheVars, pureVars>>

\* CacheManager::clean_expired(dir)
TreeCleanExpired(dir) ==
    /\ cache_call.left > 0
    /\ tree' = IF <<<<dir>>>> \in tree.dirs THEN clean_expired_in(tree, dir, now) ELSE tree
    /\ cache_call' = Made("clean_expired", dir, <<>>, <<"Ok">>)
    /\ UNCHANGED <<scanVars, httpVars, cacheVars, pureVars>>

\* CacheManager::clean_expired(dir), a remove_file failing: Err(WriteError)
\* after the files listed before it were removed
TreeCleanExpiredErr(dir) ==
    /\ cache_call.left > 0
    /\ <<<<dir>>>> \in tree.dirs
    /\ \E gone \in SUBSET removable(tree, dir, now) :
          /\ gone # removable(tree, dir, now)
          /\ tree' = without_files(tree, gone)
    /\ cache_call' = Made("clean_expired", dir, <<>>, <<"Err">>)
    /\ UNCHANGED <<scanVars, httpVars, cacheVars, pureVars>>

(* ------------------------------ http.rs -------------------------------- *)
\* const DEFAULT_RETRIES
DEFAULT_RETRIES == 3

\* HttpClient::new, with_retries and with_cache (the timeout is handed to the
\* transport, whose failures are a response kind here)
HttpClient_new == [retries |-> DEFAULT_RETRIES, cache |-> None]
with_retries(self, retries) == [self EXCEPT !.retries = retries]
with_cache(self, cache) == [self EXCEPT !.cache = Some(cache)]

\* the URLs asked for, as their parts between slashes, and the POST bodies
Urls == {<<"repo", "p", "a.json">>, <<"mirror", "a.json">>}
Bodies == {"q"}

\* HttpClient::cache_key_from_url: the last part of the URL
cache_key_from_url(url) == <<url[Len(url)]>>

\* post's key: format!("{}-{:?}", url, body)
post_key(url, body) == url \o <<"-", body>>

\* the entry files the model follows
Keys == {cache_key_from_url(url) : url \in Urls}
            \cup {post_key(url, body) : url \in Urls, body \in Bodies}

\* a get or post call and its derived cache key
Request(method, url, body) ==
    [method |-> method, url |-> url, body |-> body,
     key |-> IF method = "get" THEN cache_key_from_url(url) ELSE post_key(url, body)]

Requests ==
    {Request("get", url, "") : url \in Urls}
        \cup {Request("post", url, body) : url \in {<<"repo", "p", "a.json">>}, body \in Bodies}

\* an event of a fetch: a request sent, a response received or a sleep started
Event(t, n) == [t |-> t, n |-> n]

\* a lookup that never hits
ok_flatten_miss(r) == None

\* cache.get(..).ok().flatten()
ok_flatten(r) == IF r[1] = "Ok" THEN r[2] ELSE None

\* a delay that does not grow
backoff_constant(n) == 1

\* Duration::from_secs(2u64.pow(attempt))
backoff(n) == 2 ^ n

\* get / post entered: the cache, if attached, is asked first; a hit returns
HttpCall(req) ==
    /\ hpc = "idle"
    /\ calls < MaxCalls
    /\ calls' = calls + 1
    /\ request' = Some(req)
    /\ attempt' = 0
    /\ fetched' = <<>>
    /\ trace' = <<>>
    /\ LET hit == IF IsSome(http_client.cache)
                  THEN ok_flatten(CacheManager_get(disk[req.key], now))
                  ELSE None
       IN  IF IsSome(hit)
           THEN /\ http_result' = <<"Ok", Unwrap(hit).data>>
                /\ hpc' = "idle"
           ELSE /\ http_result' = <<>>
                /\ hpc' = "send"
    /\ UNCHANGED <<scanVars, pureVars, treeVars, http_client, cacheVars>>

\* fetch / fetch_post: self.client.get(url).send() or .post(url).json(body).send()
Send ==
    /\ hpc = "send"
    /\ trace' = Append(trace, Event("request", attempt))
    /\ hpc' = "await"
    /\ UNCHANGED <<scanVars, pureVars, treeVars, http_client, request, attempt, fetched, http_result, calls, cacheVars>>

\* Ok(response) if response.status().is_success(): the body is awaited
RespondSuccess ==
    /\ hpc = "await"
    /\ trace' = Append(trace, Event("success", attempt))
    /\ hpc' = "decode"
    /\ UNCHANGED <<scanVars, pureVars, treeVars, http_client, request, attempt, fetched, http_result, calls, cacheVars>>

\* response.json() gives the payload: return Ok(..)
DecodeOk(data) ==
    /\ hpc = "decode"
    /\ fetched' = <<"Ok", data>>
    /\ hpc' = "fetched"
    /\ UNCHANGED <<scanVars, pureVars, treeVars, http_client, request, attempt, http_result, trace, calls, cacheVars>>

\* an undecodable body sends the loop to its next round
DecodeErr_retried ==
    /\ hpc = "decode"
    /\ IF attempt < http_client.retries
       THEN /\ trace' = Append(trace, Event("sleep", backoff(attempt)))
            /\ hpc' = "sleep"
            /\ UNCHANGED fetched
       ELSE /\ fetched' = <<"Err", "decode">>
            /\ hpc' = "fetched"
            /\ UNCHANGED trace
    /\ UNCHANGED <<scanVars, pureVars, treeVars, http_client, request, attempt, http_result, calls, cacheVars>>

\* response.json() fails: map_err(..)? returns the RegistryError
DecodeErr ==
    /\ hpc = "decode"
    /\ fetched' = <<"Err", "decode">>
    /\ hpc' = "fetched"
    /\ UNCHANGED <<scanVars, pureVars, treeVars, http_client, request, attempt, http_result, trace, calls, cacheVars>>

\* Ok(_response): a sleep if attempts remain; after the last attempt the arm
\* does nothing, the loop ends and unreachable!() panics
RespondStatus ==
    /\ hpc = "await"
    /\ IF attempt < http_client.retries
       THEN /\ trace' = trace \o <<Event("status", attempt), Event("sleep", backoff(attempt))>>
            /\ hpc' = "sleep"
            /\ UNCHANGED <<fetched, http_result>>
       ELSE /\ trace' = Append(trace, Event("status", attempt))
            /\ hpc' = "panicked"
            /\ fetched' = <<"Panic">>
            /\ http_result' = <<"Panic">>
    /\ UNCHANGED <<scanVars, pureVars, treeVars, http_client, request, attempt, calls, cacheVars>>

\* Err(_e) if attempt < self.retries: a sleep; Err(e): return the RegistryError
RespondTransportError ==
    /\ hpc = "await"
    /\ IF attempt < http_client.retries
       THEN /\ trace' = trace \o <<Event("transport", attempt), Event("sleep", backoff(attempt))>>
            /\ hpc' = "sleep"
            /\ UNCHANGED fetched
       ELSE /\ trace' = Append(trace, Event("transport", attempt))
            /\ hpc' = "fetched"
            /\ fetched' = <<"Err", "transport">>
    /\ UNCHANGED <<scanVars, pureVars, treeVars, http_client, request, attempt, http_result, calls, cacheVars>>

\* tokio::time::sleep(delay) is over: the next round of the loop
Wake ==
    /\ hpc = "sleep"
    /\ attempt' = attempt + 1
    /\ hpc' = "send"
    /\ UNCHANGED <<scanVars, pureVars, treeVars, http_client, request, fetched, http_result, trace, calls, cacheVars>>

\* fetch has returned to get / post: without a cache its result is the
\* call's; with one, `?` returns an Err and an Ok goes on to cache.set
FetchReturn ==
    /\ hpc = "fetched"
    /\ IF IsSome(http_client.cache) /\ fetched[1] = "Ok"
       THEN /\ hpc' = "cache_set"
            /\ UNCHANGED http_result
       ELSE /\ hpc' = "idle"
            /\ http_result' = fetched
    /\ UNCHANGED <<scanVars, pureVars, treeVars, http_client, request, attempt, fetched, trace, calls, cacheVars>>

\* cache.set(..) succeeds: Ok(result)
CacheSetOk ==
    /\ hpc = "cache_set"
    /\ disk' = [disk EXCEPT ![Unwrap(request).key] =
                   CacheManager_set(Unwrap(http_client.cache), fetched[2], now)]
    /\ http_result' = fetched
    /\ hpc' = "idle"
    /\ UNCHANGED <<scanVars, pureVars, treeVars, http_client, request, attempt, fetched, trace, calls, now, procs,
                   observed>>

\* a failed cache.set fails the call
CacheSetErr_fatal(file) ==
    /\ hpc = "cache_set"
    /\ disk' = [disk EXCEPT ![Unwrap(request).key] = file]
    /\ http_result' = <<"Err", "cache">>
    /\ hpc' = "idle"
    /\ UNCHANGED <<scanVars, pureVars, treeVars, http_client, request, attempt, fetched, trace, calls, now, procs,
                   observed>>

\* cache.set(..) fails, the file untouched or left truncated: the warning is
\* printed and Ok(result) returned
CacheSetErr(file) ==
    /\ hpc = "cache_set"
    /\ disk' = [disk EXCEPT ![Unwrap(request).key] = file]
    /\ http_result' = fetched
    /\ hpc' = "idle"
    /\ UNCHANGED <<scanVars, pureVars, treeVars, http_client, request, attempt, fetched, trace, calls, now, procs,
                   observed>>

(* ------------------------------ specifications ------------------------- *)
\* the registries the scans start from, as the register_* calls that build them
ConfigFull ==
    <<RegCall("detector", "Npm", "detector"), RegCall("detector", "Composer", "detector"),
      RegCall("parser", "Composer", "parser"),
      RegCall("registry_client", "Composer", "packagist"),
      RegCall("vulnerability_scanner", "Composer", "scanner")>>

ConfigDefaultClient ==
    <<RegCall("detector", "Composer", "detector"), RegCall("parser", "Composer", "parser"),
      RegCall("parser", "Composer", "parser"),
      RegCall("registry_client", "Composer", "default")>>

ConfigScannerOnly ==
    <<RegCall("detector", "Composer", "detector"), RegCall("parser", "Composer", "parser"),
      RegCall("vulnerability_scanner", "Composer", "scanner")>>

ScanConfigs == {ConfigFull, ConfigDefaultClient, ConfigScannerOnly}

\* nothing running: the locals of detect_all and scan, and the histories
Idle ==
    /\ detIdx = 1
    /\ all_files = <<>>
    /\ detected = <<>>
    /\ files = <<>>
    /\ fileIdx = 1
    /\ deps = <<>>
    /\ depIdx = 1
    /\ updates = <<>>
    /\ vulnerabilities = <<>>
    /\ report = ScanReport_new
    /\ returned = <<>>
    /\ outstanding = {}
    /\ log = <<>>
    /\ folded = <<>>

\* no HttpClient call and no cache operation under way
IoIdle ==
    /\ http_client = HttpClient_new
    /\ request = None
    /\ hpc = "idle"
    /\ attempt = 0
    /\ fetched = <<>>
    /\ http_result = <<>>
    /\ trace = <<>>
    /\ calls = 0
    /\ disk = [k \in Keys |-> None]
    /\ now = 0
    /\ procs = [p \in Procs |-> Proc(CacheManager_new, 0)]
    /\ observed = {}

\* no tree is worked on
TreeIdle ==
    /\ tree = Tree({}, <<>>)
    /\ cache_call = CacheCall(CacheManager_new, 0, "none", "", <<>>, <<>>, Tree({}, <<>>))

\* no version.rs function has been called
PureIdle ==
    /\ input = None
    /\ output = None
    /\ TreeIdle

\* a scan about to start on a built registry
Init ==
    /\ PureIdle
    /\ reg_calls \in ScanConfigs
    /\ registry = RegistryAfter(reg_calls)
    /\ pc = "start"
    /\ Idle
    /\ IoIdle

Next ==
    \/ ScanStart
    \/ DetectCall
    \/ \E k \in 0..(MaxFiles - Len(all_files)) :
          /\ pc = "detect_wait"
          /\ DetectReturnOk(DetectedFiles(detIdx, registry.detectors[detIdx].ecosystem, k))
    \/ DetectReturnErr
    \/ DetectAllReturn
    \/ ScanDetected
    \/ ScanDetectFailed
    \/ NoParser
    \/ ParseCall
    \/ /\ pc = "parse_wait"
       /\ \E ds \in ParsedDeps(File.path, MaxDeps - ParsedSoFar) : ParseReturnOk(ds)
    \/ ParseReturnErr
    \/ UpdateCall
    \/ UpdateSkip
    \/ \E latest \in LatestPool : UpdateReturnOk(latest)
    \/ UpdateReturnErr
    \/ VulnCall
    \/ VulnSkip
    \/ \E vulns \in VulnPool : VulnReturnOk(vulns)
    \/ VulnReturnErr
    \/ Fold
    \/ ScanReturn

Spec == Init /\ [][Next]_vars

\* the scan as one task that is always resumed: every plugin call returns and
\* every step the scan can take is taken
SpecScanFair == Init /\ [][Next]_vars /\ WF_vars(Next)

\* a registry being built, then asked to detect
InitRegistry ==
    /\ PureIdle
    /\ reg_calls = <<>>
    /\ registry = PluginRegistry_new
    /\ pc = "setup"
    /\ Idle
    /\ IoIdle

NextRegistry ==
    \/ \E c \in RegCalls : Register(c)
    \/ DetectAllStart
    \/ DetectCall
    \/ \E k \in 0..(MaxFiles - Len(all_files)) :
          /\ pc = "detect_wait"
          /\ DetectReturnOk(DetectedFiles(detIdx, registry.detectors[detIdx].ecosystem, k))
    \/ DetectReturnErr
    \/ DetectAllReturn

SpecRegistry == InitRegistry /\ [][NextRegistry]_vars

\* run_scan: plugins are registered on a new registry, then detect_all runs
NextPlugin ==
    \/ \E plugin \in PluginPool : RegisterPlugin(plugin)
    \/ DetectAllStart
    \/ DetectCall
    \/ \E k \in 0..(MaxFiles - Len(all_files)) :
          /\ pc = "detect_wait"
          /\ DetectReturnOk(DetectedFiles(detIdx, registry.detectors[detIdx].ecosystem, k))
    \/ DetectReturnErr
    \/ DetectAllReturn

SpecPlugin == InitRegistry /\ [][NextPlugin]_vars

\* a new report given results by an arbitrary caller
InitReport ==
    /\ PureIdle
    /\ reg_calls = <<>>
    /\ registry = PluginRegistry_new
    /\ pc = "report"
    /\ Idle
    /\ IoIdle

NextReport == \E result \in ResultPool : AddEcosystemResult(result)

SpecReport == InitReport /\ [][NextReport]_vars

(* ------------------------------ HttpClient and CacheManager: specifications *)
\* no registry built and no scan under way
ScanIdle ==
    /\ reg_calls = <<>>
    /\ registry = PluginRegistry_new
    /\ pc = "off"
    /\ Idle

\* the time-to-live values given to with_ttl
TtlPool == {0, 1}

Managers == {CacheManager_new} \cup {with_ttl(CacheManager_new, ttl) : ttl \in TtlPool}

\* the clients built: any retry count up to the bound or the default, with or
\* without a cache
Clients ==
    LET bare == {HttpClient_new} \cup {with_retries(HttpClient_new, r) : r \in 0..MaxRetries}
    IN  bare \cup {with_cache(c, m) : c \in bare, m \in Managers}

\* what an earlier run may have left at the key of the GET calls: nothing, a
\* truncated file, or an entry written at second 0
StoredFiles ==
    {None, truncated, Some(to_string_pretty(CacheEntry_new(<<"a">>, 1, 0)))}

\* a client about to serve calls
InitHttp ==
    /\ PureIdle
    /\ ScanIdle
    /\ http_client \in Clients
    /\ request = None
    /\ hpc = "idle"
    /\ attempt = 0
    /\ fetched = <<>>
    /\ http_result = <<>>
    /\ trace = <<>>
    /\ calls = 0
    /\ \E file \in (IF IsSome(http_client.cache) THEN StoredFiles ELSE {None}) :
          disk = [k \in Keys |-> IF k = SharedKey THEN file ELSE None]
    /\ now = 0
    /\ procs = [p \in Procs |-> Proc(CacheManager_new, 0)]
    /\ observed = {}

NextHttp ==
    \/ \E req \in Requests : HttpCall(req)
    \/ Send
    \/ RespondSuccess
    \/ \E data \in Payloads : DecodeOk(data)
    \/ DecodeErr
    \/ RespondStatus
    \/ RespondTransportError
    \/ Wake
    \/ FetchReturn
    \/ CacheSetOk
    \/ /\ hpc = "cache_set"
       /\ \E file \in {disk[Unwrap(request).key], truncated} : CacheSetErr(file)
    \/ Tick

SpecHttp == InitHttp /\ [][NextHttp]_vars

\* processes about to work on one cache directory, all configured alike and
\* each with left operations to make
InitCacheWith(left) ==
    /\ PureIdle
    /\ ScanIdle
    /\ http_client = HttpClient_new
    /\ request = None
    /\ hpc = "idle"
    /\ attempt = 0
    /\ fetched = <<>>
    /\ http_result = <<>>
    /\ trace = <<>>
    /\ calls = 0
    /\ disk = [k \in Keys |-> None]
    /\ now = 0
    /\ \E m \in Managers : procs = [p \in Procs |-> Proc(m, left)]
    /\ observed = {}

\* one operation step of process p
CacheStep(p) ==
    \/ \E data \in Payloads : SetStart(p, data)
    \/ SetOpenErr(p)
    \/ SetOpen(p)
    \/ SetWrite(p)
    \/ SetWriteErr(p)
    \/ GetStart(p)
    \/ GetRead(p)
    \/ GetCheck(p)
    \/ CleanStart(p)
    \/ CleanRead(p)
    \/ CleanCheck(p)
    \/ CleanRemove(p)

\* one process using its CacheManager, the clock advancing
InitCacheManager == InitCacheWith(MaxOps)

NextCacheManager ==
    \/ CacheStep(1)
    \/ Tick

SpecCacheManager == InitCacheManager /\ [][NextCacheManager]_vars

\* the processes using the shared directory concurrently, within one second
InitCacheShared == InitCacheWith(MaxSharedOps)

NextCacheShared == \E p \in Procs : CacheStep(p)

SpecCacheShared == InitCacheShared /\ [][NextCacheShared]_vars

(* ------------------- one CacheManager and its tree --------------------- *)
\* what an earlier run may have left of an entry: nothing, an empty file, an
\* entry written at second 0 to live one second, or one to live a day
StoredEntries ==
    {None, Some(<<>>), Some(to_string_pretty(CacheEntry_new(<<"a">>, 1, 0))),
     Some(to_string_pretty(CacheEntry_new(<<"a">>, DEFAULT_TTL, 0)))}

\* the keys earlier runs stored under
StoredKeys == <<[dir |-> "api", key |-> <<"a">>], [dir |-> "api", key |-> <<"p", "/", "a">>],
                [dir |-> "test", key |-> <<"a">>]>>

\* the tree those runs left: the files at their paths, in their directories
StoredTree(contents) ==
    LET kept == {i \in 1..Len(StoredKeys) : IsSome(contents[i])}
        at(i) == path_for(StoredKeys[i].dir, StoredKeys[i].key)
    IN  Tree(UNION {{SubSeq(at(i), 1, n) : n \in 1..(Len(at(i)) - 1)} : i \in kept},
             [f \in {at(i) : i \in kept} |->
                 Unwrap(contents[CHOOSE i \in kept : at(i) = f])])

\* a CacheManager on the tree of earlier runs, MaxNow seconds after they wrote
InitCacheTree ==
    /\ ScanIdle
    /\ input = None
    /\ output = None
    /\ http_client = HttpClient_new
    /\ request = None
    /\ hpc = "idle"
    /\ attempt = 0
    /\ fetched = <<>>
    /\ http_result = <<>>
    /\ trace = <<>>
    /\ calls = 0
    /\ disk = [k \in Keys |-> None]
    /\ now = MaxNow
    /\ procs = [p \in Procs |-> Proc(CacheManager_new, 0)]
    /\ observed = {}
    /\ \E contents \in [1..Len(StoredKeys) -> StoredEntries] : tree = StoredTree(contents)
    /\ \E m \in {CacheManager_new, with_ttl(CacheManager_new, 0)} :
          cache_call = CacheCall(m, MaxDirOps, "none", "", <<>>, <<>>, tree)

NextCacheTree ==
    \/ \E dir \in Namespaces, key \in CacheKeys, data \in {<<"b", "b">>} : TreeSet(dir, key, data)
    \/ \E dir \in Namespaces, key \in CacheKeys : TreeGet(dir, key)
    \/ \E dir \in Namespaces : TreeClear(dir)
    \/ \E dir \in Namespaces : TreeClearErr(dir)
    \/ \E dir \in Namespaces : TreeCleanExpired(dir)
    \/ \E dir \in Namespaces : TreeCleanExpiredErr(dir)

SpecCacheTree == InitCacheTree /\ [][NextCacheTree]_vars

(* ------------------- the version.rs functions, called ------------------ *)
\* the pre-release tag of a version string: none or one of the tags
Pres == {""} \cup {PreTags[i] : i \in 1..Len(PreTags)}

\* The version strings the functions are called with: every full triple
\* with and without a tag ("1.2.0", "1.2.0-alpha"), the partial ones ("1",
\* "1.2", "1-alpha"), a prefixed one ("v1.0.0"), one with four components,
\* the empty string and a word.
VersionPool ==
    {VersionString("", <<a, b, c>>, pre) : a \in 0..MaxPart, b \in 0..MaxPart, c \in 0..MaxPart, pre \in Pres}
    \cup {VersionString("", <<a>>, "") : a \in 0..MaxPart}
    \cup {VersionString("", <<a, b>>, "") : a \in 0..MaxPart, b \in 0..MaxPart}
    \cup {VersionString("", <<1>>, "alpha"), VersionString("v", <<1, 0, 0>>, ""),
          VersionString("", <<1, 2, 0, 1>>, ""), VersionString("", <<>>, ""),
          VersionString("invalid", <<>>, "")}

\* the range expressions: "", "*", ">=1.0.0, <2.0.0", ">=1.0.0-alpha" and
\* ">=invalid"
RangePool ==
    {RangeString(FALSE, <<>>), RangeString(TRUE, <<>>),
     RangeString(FALSE, <<Comparator(">=", VersionString("", <<1, 0, 0>>, "")),
                          Comparator("<", VersionString("", <<2, 0, 0>>, ""))>>),
     RangeString(FALSE, <<Comparator(">=", VersionString("", <<1, 0, 0>>, "alpha"))>>),
     RangeString(FALSE, <<Comparator(">=", VersionString("invalid", <<>>, ""))>>)}

ConstraintPool ==
    {VersionConstraint(kind, v) : kind \in {"Exact", "GreaterThanEqual", "Caret", "Tilde"}, v \in VersionPool}
    \cup {VersionConstraint("Range", expr) : expr \in RangePool}

\* the requirements a composer.json declares: an operator or none in front
\* of a version string without a tag
DeclaredPool ==
    {DeclaredString(op, v) : op \in {"^", "~", ">=", ">", ""},
                             v \in {w \in VersionPool : w.pre = "" /\ w.prefix = ""}}

\* the arguments of one call
Input(op, a, b) == [op |-> op, a |-> a, b |-> b]

InitVersion ==
    /\ ScanIdle
    /\ IoIdle
    /\ TreeIdle
    /\ \/ \E current \in VersionPool, latest \in VersionPool :
             input = Some(Input("classify_update", current, latest))
       \/ \E constraint \in ConstraintPool, version \in VersionPool :
             input = Some(Input("satisfies", constraint, version))
       \/ \E declared \in DeclaredPool, version \in VersionPool :
             input = Some(Input("parse_constraint", declared, version))
    /\ output = None

\* VersionComparator::classify_update(current, latest)
ClassifyUpdate ==
    /\ IsSome(input) /\ output = None
    /\ Unwrap(input).op = "classify_update"
    /\ output' = Some(classify_update(Unwrap(input).a, Unwrap(input).b))
    /\ UNCHANGED <<scanVars, httpVars, cacheVars, treeVars, input>>

\* VersionComparator::satisfies(constraint, version)
Satisfies ==
    /\ IsSome(input) /\ output = None
    /\ Unwrap(input).op = "satisfies"
    /\ output' = Some(satisfies(Unwrap(input).a, Unwrap(input).b))
    /\ UNCHANGED <<scanVars, httpVars, cacheVars, treeVars, input>>

\* ComposerParser::parse building a Dependency: constraint: parse_constraint(version)
ParseConstraint ==
    /\ IsSome(input) /\ output = None
    /\ Unwrap(input).op = "parse_constraint"
    /\ output' = Some(parse_constraint(Unwrap(input).a))
    /\ UNCHANGED <<scanVars, httpVars, cacheVars, treeVars, input>>

NextVersion ==
    \/ ClassifyUpdate
    \/ Satisfies
    \/ ParseConstraint

SpecVersion == InitVersion /\ [][NextVersion]_vars

(* ------------------------------ reading the histories ------------------ *)
ReturnedOk == Len(returned) = 2 /\ returned[1] = "Ok"
ReturnedErr == returned = <<"Err">>

\* the places of the log where a plugin call whose failure is fatal returned Err
FatalFailures ==
    {i \in 1..Len(log) : log[i].t = "ret" /\ ~log[i].ok /\ log[i].op \in {"detect", "parse", "update"}}

\* the places of the log where a vulnerability scan returned Err
VulnFailures == {i \in 1..Len(log) : log[i].t = "ret" /\ ~log[i].ok /\ log[i].op = "vuln"}

\* the places of the log where op was called for (f, d), and where it returned
CallsOf(op, f, d) ==
    {i \in 1..Len(log) : log[i].t = "call" /\ log[i].op = op /\ log[i].f = f /\ log[i].d = d}
ReturnsOf(op, f, d) ==
    {i \in 1..Len(log) : log[i].t = "ret" /\ log[i].op = op /\ log[i].f = f /\ log[i].d = d}

\* what op returned for (f, d): nothing when it was never called or failed
OutOf(op, f, d) ==
    IF ReturnsOf(op, f, d) = {} THEN <<>> ELSE log[CHOOSE i \in ReturnsOf(op, f, d) : TRUE].out

\* the detected files, by number, whose ecosystem has no registered parser
Unparsable(n) == {f \in 1..n : ~IsSome(get_parser(registry, files[f].ecosystem))}

\* the number of the detected file with the given path
FileOf(path) == CHOOSE f \in 1..Len(files) : files[f].path = path

(* ------------------------------ C1 ------------------------------------- *)
\* C1: once detect, parse or get_update_info has returned an error, that
\* return is the last plugin event of the scan (nothing is called after it, no
\* call is left outstanding), no file is folded after it, the scan never
\* returns a report, and when scan has returned it has returned the error.
C1_FatalFailureAborts ==
    \A i \in FatalFailures :
        /\ i = Len(log)
        /\ outstanding = {}
        /\ pc \in {"detect_end", "done"}
        /\ ~ReturnedOk
        /\ pc = "done" => ReturnedErr

\* a scan that folded one file, then failed an update lookup in the next one
C1_Witness ==
    /\ pc = "done"
    /\ ReturnedErr
    /\ Len(folded) = 1
    /\ FatalFailures # {}
    /\ log[Len(log)].op = "update"

(* ------------------------------ C2 ------------------------------------- *)
\* the step in which the awaited vulnerability scan returns Err
VulnFailStep ==
    /\ Len(log') = Len(log) + 1
    /\ log'[Len(log')].t = "ret"
    /\ log'[Len(log')].op = "vuln"
    /\ ~log'[Len(log')].ok

\* every lookup the registry provides for dependency d of file f was made
LookedUp(f, d) ==
    /\ IsSome(get_registry_client(registry, files[f].ecosystem)) => ReturnsOf("update", f, d) # {}
    /\ IsSome(get_vulnerability_scanner(registry, files[f].ecosystem)) => ReturnsOf("vuln", f, d) # {}

\* every detected file that has a parser was parsed and every dependency looked up
AllProcessed ==
    \A f \in 1..Len(files) \ Unparsable(Len(files)) :
        /\ ReturnsOf("parse", f, 0) # {}
        /\ \A d \in 1..Len(OutOf("parse", f, 0)) : LookedUp(f, d)

\* C2: the step in which a vulnerability scan fails leaves the collected
\* vulnerabilities and updates as they were, moves on to the next dependency
\* and returns nothing; and a scan whose only failures are vulnerability-scan
\* failures ends by returning a report, with every file parsed and every
\* dependency looked up.
C2_VulnFailureSwallowed ==
    /\ [][VulnFailStep =>
            /\ vulnerabilities' = vulnerabilities
            /\ updates' = updates
            /\ depIdx' = depIdx + 1
            /\ pc' = "deps"
            /\ returned' = <<>>]_vars
    /\ []((pc = "done" /\ FatalFailures = {}) => (ReturnedOk /\ AllProcessed))

\* a returned report of a scan in which a vulnerability scan failed on a
\* dependency that has an update, and a later dependency was still looked up
C2_Witness ==
    /\ ReturnedOk
    /\ \E i \in VulnFailures :
          /\ log[i].d = 1
          /\ ReturnsOf("vuln", log[i].f, 2) # {}
          /\ Len(returned[2].ecosystem_results["Composer"][1].updates) = 2

(* ------------------------------ C3 ------------------------------------- *)
\* C3: the report carries exactly one warning per file already visited whose
\* ecosystem has no parser; such a file is never parsed and never folded (it
\* contributes no dependencies); a scan without a fatal plugin failure ends in
\* a report; and a returned report carries as many warnings as there are
\* detected files without a parser.
C3_MissingParserWarns ==
    /\ Len(report.warnings) = Cardinality(Unparsable(fileIdx - 1))
    /\ \A f \in Unparsable(Len(files)) :
          /\ CallsOf("parse", f, 0) = {}
          /\ \A k \in 1..Len(folded) : folded[k].files_found # <<files[f].path>>
    /\ (pc = "done" /\ FatalFailures = {}) => ReturnedOk
    /\ ReturnedOk => Len(returned[2].warnings) = Cardinality(Unparsable(Len(files)))

\* a returned report with a warning for a file that came before a parsed one
C3_Witness ==
    /\ ReturnedOk
    /\ Len(returned[2].warnings) = 1
    /\ 1 \in Unparsable(Len(files))
    /\ Len(folded) = 1
    /\ returned[2].total_dependencies = 2

(* ------------------------------ C4 ------------------------------------- *)
\* the implementation the earliest register_* call for (cap, ecosystem) boxed
FirstRegistered(cap, ecosystem) ==
    LET made == {i \in 1..Len(reg_calls) :
                    reg_calls[i].cap = cap /\ reg_calls[i].ecosystem = ecosystem}
    IN  IF made = {} THEN None
        ELSE LET i == CHOOSE i \in made : \A j \in made : i <= j
             IN  Some(Impl(i, reg_calls[i].kind))

\* C4: after any sequence of register_* calls, each get_* resolves, for every
\* ecosystem, the implementation registered first for it, and None when
\* none was registered.
C4_FirstRegisteredWins ==
    \A e \in Ecosystems :
        /\ get_detector(registry, e) = FirstRegistered("detector", e)
        /\ get_parser(registry, e) = FirstRegistered("parser", e)
        /\ get_registry_client(registry, e) = FirstRegistered("registry_client", e)
        /\ get_vulnerability_scanner(registry, e) = FirstRegistered("vulnerability_scanner", e)

\* two clients of different kinds registered for one ecosystem, none for the
\* other: the first is resolved, the other ecosystem resolves None
C4_Witness ==
    /\ Len(registry.registry_clients) = 2
    /\ registry.registry_clients[1].ecosystem = "Composer"
    /\ registry.registry_clients[2].ecosystem = "Composer"
    /\ registry.registry_clients[1].impl.kind # registry.registry_clients[2].impl.kind
    /\ get_registry_client(registry, "Composer") = Some(registry.registry_clients[1].impl)
    /\ get_registry_client(registry, "Npm") = None

(* ------------------------------ C5 ------------------------------------- *)
\* the detect calls and returns of the log, in order
DetectEvents == SelectSeq(log, LAMBDA ev : ev.op = "detect")
DetectCalls == SelectSeq(DetectEvents, LAMBDA ev : ev.t = "call")
DetectReturns == SelectSeq(DetectEvents, LAMBDA ev : ev.t = "ret")

\* C5: detect_all calls the registered detectors one after the other in
\* registration order (the k-th call is to the k-th registered detector,
\* whatever its ecosystem); it returns Ok only after every detector returned
\* Ok, and then exactly the concatenation of their outputs in that order;
\* after a detector returned Err no further detector is called and
\* detect_all returns the error, which carries no file.
C5_DetectAllFailFast ==
    /\ \A k \in 1..Len(DetectCalls) : DetectCalls[k].f = k
    /\ Len(DetectCalls) <= Len(registry.detectors)
    /\ \A k \in 1..Len(DetectReturns) :
          ~DetectReturns[k].ok =>
              /\ k = Len(DetectCalls)
              /\ pc # "detect"
              /\ detected = <<"Err">>
    /\ (Len(detected) = 2) =>
          /\ Len(DetectReturns) = Len(registry.detectors)
          /\ detected[2] = Flatten([k \in 1..Len(DetectReturns) |-> DetectReturns[k].out])

\* detect_all returned the files of two detectors of the same ecosystem,
\* the shadowed one included
C5_Witness ==
    /\ Len(detected) = 2
    /\ Len(registry.detectors) = 2
    /\ registry.detectors[1].ecosystem = registry.detectors[2].ecosystem
    /\ detected[2] = <<DependencyFile("Npm", <<1, 1>>), DependencyFile("Npm", <<2, 1>>)>>

(* ------------------------------ C6 ------------------------------------- *)
\* where a plugin call stands in the order of the scan: detection first,
\* then file by file, the parse before the dependencies, and per dependency
\* the update lookup before the vulnerability lookup
Rank(ev) ==
    CASE ev.op = "detect" -> <<0, ev.f, 0>>
      [] ev.op = "parse" -> <<ev.f, 0, 0>>
      [] ev.op = "update" -> <<ev.f, ev.d, 1>>
      [] ev.op = "vuln" -> <<ev.f, ev.d, 2>>

Before(a, b) ==
    \/ a[1] < b[1]
    \/ a[1] = b[1] /\ a[2] < b[2]
    \/ a[1] = b[1] /\ a[2] = b[2] /\ a[3] < b[3]

\* C6: at most one plugin call is outstanding; the log is a strict
\* alternation of one call and its own return; and each call comes later in
\* the order (file, dependency, update before vulnerability lookup) than the
\* call before it.
C6_StrictlySequential ==
    /\ Cardinality(outstanding) <= 1
    /\ \A i \in 1..Len(log) :
          /\ log[i].t = (IF i % 2 = 1 THEN "call" ELSE "ret")
          /\ log[i].t = "ret" =>
                /\ log[i].op = log[i - 1].op
                /\ log[i].f = log[i - 1].f
                /\ log[i].d = log[i - 1].d
          /\ (log[i].t = "call" /\ i > 2) =>
                Before(Rank(log[i - 2]), Rank(log[i]))
    /\ outstanding = (IF Len(log) % 2 = 1
                      THEN {Call(log[Len(log)].op, log[Len(log)].f, log[Len(log)].d)}
                      ELSE {})

\* the update lookup of a second dependency is outstanding, after both
\* lookups of the first one returned
C6_Witness ==
    /\ outstanding = {Call("update", 1, 2)}
    /\ ReturnsOf("update", 1, 1) # {}
    /\ ReturnsOf("vuln", 1, 1) # {}

(* ------------------------------ C7 ------------------------------------- *)
\* the updates the lookups of file f yield, dependency by dependency
UpdatesInOrder(f) ==
    LET ds == OutOf("parse", f, 0)
        client == get_registry_client(registry, files[f].ecosystem)
    IN  Flatten([d \in 1..Len(ds) |->
                    IF IsSome(client) /\ ReturnsOf("update", f, d) # {}
                       /\ log[CHOOSE i \in ReturnsOf("update", f, d) : TRUE].ok
                    THEN get_update_info(Unwrap(client), ds[d], OutOf("update", f, d))
                    ELSE <<>>])

\* the vulnerabilities the scans of file f returned, dependency by dependency
VulnsInOrder(f) ==
    Flatten([d \in 1..Len(OutOf("parse", f, 0)) |-> OutOf("vuln", f, d)])

\* C7: every result the scan folds lists the dependencies exactly as the
\* parser returned them, the updates in the order of the dependencies they
\* are for, and the vulnerabilities in the order of the dependencies they
\* were found for (each scanner answer kept in its own order).
C7_ParserOrderKept ==
    \A k \in 1..Len(folded) :
        LET f == FileOf(folded[k].files_found[1])
        IN  /\ folded[k].dependencies = OutOf("parse", f, 0)
            /\ folded[k].updates = UpdatesInOrder(f)
            /\ folded[k].vulnerabilities = VulnsInOrder(f)

\* a folded result with two different updates and the answers of two
\* vulnerability scans
C7_Witness ==
    \E k \in 1..Len(folded) :
        /\ Len(folded[k].updates) = 2
        /\ folded[k].updates[1] # folded[k].updates[2]
        /\ folded[k].dependencies[1] # folded[k].dependencies[2]
        /\ Len(folded[k].vulnerabilities) = 4

(* ------------------------------ C8 ------------------------------------- *)
\* C8: after any sequence of add_ecosystem_result calls on a new report,
\* total_dependency_files is the sum of the files_found sizes and
\* total_dependencies the sum of the dependencies sizes of the results given.
C8_TotalsAreSums ==
    /\ report.total_dependency_files =
          SumSeq([k \in 1..Len(folded) |-> Len(folded[k].files_found)])
    /\ report.total_dependencies =
          SumSeq([k \in 1..Len(folded) |-> Len(folded[k].dependencies)])

\* two results folded for the same ecosystem, the second replacing the first
\* in the map, three dependencies and three files counted
C8_Witness ==
    /\ pc = "report"
    /\ Len(folded) = 2
    /\ folded[1].ecosystem = folded[2].ecosystem
    /\ Len(folded[1].dependencies) = 2
    /\ Len(folded[2].dependencies) = 1
    /\ report.total_dependencies = 3
    /\ report.total_dependency_files = 3

(* ------------------------------ C9 ------------------------------------- *)
\* the vulnerabilities of the given severity among all results folded
FoldedOfSeverity(severity) ==
    SumSeq([k \in 1..Len(folded) |-> CountSeverity(folded[k].vulnerabilities, severity)])

\* C9: after any sequence of add_ecosystem_result calls on a new report, each
\* of the four severity counters of the summary is the number of folded
\* vulnerabilities of that severity.
C9_SeverityBuckets ==
    /\ report.summary.critical_vulnerabilities = FoldedOfSeverity("Critical")
    /\ report.summary.high_vulnerabilities = FoldedOfSeverity("High")
    /\ report.summary.medium_vulnerabilities = FoldedOfSeverity("Medium")
    /\ report.summary.low_vulnerabilities = FoldedOfSeverity("Low")

(* ------------------------------ C10 ------------------------------------ *)
\* latest is a strictly greater version than current (both read without a
\* leading v, compared as major.minor.patch)
StrictlyNewer(current, latest) ==
    LET c == Version_parse(trim_start_matches_v(current))
        l == Version_parse(trim_start_matches_v(latest))
    IN  /\ IsSome(c)
        /\ IsSome(l)
        /\ Before(<<Unwrap(c).major, Unwrap(c).minor, Unwrap(c).patch>>,
                  <<Unwrap(l).major, Unwrap(l).minor, Unwrap(l).patch>>)

\* the dependencies of file f for which the registry answered a strictly
\* greater latest version
WithNewerLatest(f) ==
    {d \in 1..Len(OutOf("parse", f, 0)) :
        /\ OutOf("update", f, d) # <<>>
        /\ StrictlyNewer(OutOf("parse", f, 0)[d].version, OutOf("update", f, d)[1])}

\* C10: a scan that detected one file, parsed N dependencies from it and
\* looked each up with the PackagistClient returns a report whose
\* updates_available is the number M of dependencies with a strictly greater
\* latest version and whose up_to_date_dependencies is N - M.
C10_UpdateCounts ==
    (/\ ReturnedOk
     /\ Len(files) = 1
     /\ IsSome(get_parser(registry, files[1].ecosystem))
     /\ IsSome(get_registry_client(registry, files[1].ecosystem))
     /\ Unwrap(get_registry_client(registry, files[1].ecosystem)).kind = "packagist")
    => /\ returned[2].summary.updates_available = Cardinality(WithNewerLatest(1))
       /\ returned[2].summary.up_to_date_dependencies =
             Len(OutOf("parse", 1, 0)) - Cardinality(WithNewerLatest(1))

(* ------------------------------ C11 ------------------------------------ *)
\* the result the step gives to add_ecosystem_result
Added == folded'[Len(folded')]

\* C11: every add_ecosystem_result call raises updates_available and
\* outdated_dependencies by the number of updates of the result, and
\* up_to_date_dependencies by the number of dependencies beyond the updates,
\* by nothing when the result has more updates than dependencies; the
\* counter never goes down.
C11_SummaryIncrements ==
    [][Len(folded') = Len(folded) + 1 =>
          /\ report'.summary.updates_available =
                report.summary.updates_available + Len(Added.updates)
          /\ report'.summary.outdated_dependencies =
                report.summary.outdated_dependencies + Len(Added.updates)
          /\ report'.summary.up_to_date_dependencies =
                report.summary.up_to_date_dependencies
                    + (IF Len(Added.dependencies) > Len(Added.updates)
                       THEN Len(Added.dependencies) - Len(Added.updates) ELSE 0)
          /\ report'.summary.up_to_date_dependencies >= report.summary.up_to_date_dependencies
      ]_vars

\* a result with one dependency and two updates was added after one with two
\* dependencies and one update: the second left up_to_date_dependencies at 1
C11_Witness ==
    /\ pc = "report"
    /\ Len(folded) = 2
    /\ Len(folded[1].dependencies) = 2 /\ Len(folded[1].updates) = 1
    /\ Len(folded[2].dependencies) = 1 /\ Len(folded[2].updates) = 2
    /\ report.summary.up_to_date_dependencies = 1
    /\ report.summary.updates_available = 3
    /\ report.summary.outdated_dependencies = 3

(* ------------------------------ C12 ------------------------------------ *)
\* C12: a report scan returns lists in updates the updates, and in
\* vulnerabilities the vulnerabilities, of all the results folded into it.
C12_FlattenedLists ==
    ReturnedOk =>
        /\ returned[2].updates = Flatten([k \in 1..Len(folded) |-> folded[k].updates])
        /\ returned[2].vulnerabilities =
              Flatten([k \in 1..Len(folded) |-> folded[k].vulnerabilities])

(* ------------------------------ reading a fetch ------------------------ *)
\* the responses the current fetch received, and the requests it sent
Responses == SelectSeq(trace, LAMBDA ev : ev.t \in {"success", "status", "transport"})
Sent == SelectSeq(trace, LAMBDA ev : ev.t = "request")

\* the fetch received at least one response and only responses of this kind
OnlyResponses(kind) ==
    /\ Responses # <<>>
    /\ \A i \in 1..Len(Responses) : Responses[i].t = kind

\* the fetch has ended
FetchEnded == fetched # <<>>

\* retries + 1 requests all answered by kind, with sleeps of 1, 2, 4, ..
\* seconds between them and none after the last
Exhausted(kind) ==
    Flatten([i \in 1..http_client.retries |->
                <<Event("request", i - 1), Event(kind, i - 1), Event("sleep", 2 ^ (i - 1))>>])
        \o <<Event("request", http_client.retries), Event(kind, http_client.retries)>>

IsPrefix(s, t) == Len(s) <= Len(t) /\ s = SubSeq(t, 1, Len(s))

(* ------------------------------ C13 ------------------------------------ *)
\* C13: a fetch that met only transport failures sends its requests and
\* sleeps as the exhausted sequence prescribes (retries + 1 requests, sleeps
\* of 2^0 .. 2^(retries-1) between them, none after the last) and, once
\* ended, has returned the transport error after exactly that sequence.
C13_TransportExhaustion ==
    OnlyResponses("transport") =>
        /\ IsPrefix(trace, Exhausted("transport"))
        /\ FetchEnded =>
              /\ fetched[1] = "Err"
              /\ fetched[2] = "transport"
              /\ trace = Exhausted("transport")
              /\ Len(Sent) = http_client.retries + 1

\* the default client (3 retries) gave up a GET after 4 requests and sleeps of
\* 1, 2 and 4 seconds, and the call returned the error
C13_Witness ==
    /\ http_client.retries = DEFAULT_RETRIES
    /\ OnlyResponses("transport")
    /\ Len(Sent) = 4
    /\ SelectSeq(trace, LAMBDA ev : ev.t = "sleep")
          = <<Event("sleep", 1), Event("sleep", 2), Event("sleep", 4)>>
    /\ hpc = "idle"
    /\ http_result = <<"Err", "transport">>

(* ------------------------------ C14 ------------------------------------ *)
\* C14: a fetch that met only non-success responses ends, like one that met
\* only transport failures, after retries + 1 requests by returning an error:
\* it never panics.
C14_StatusExhaustion ==
    /\ hpc # "panicked"
    /\ (OnlyResponses("status") /\ FetchEnded) =>
          /\ fetched[1] = "Err"
          /\ Len(Sent) = http_client.retries + 1

(* ------------------------------ C15 ------------------------------------ *)
\* C15: a success response is the last event of its fetch: it came for
\* request number n + 1 of n + 1 requests sent, nothing is sent or slept
\* after it, and the fetch ends with the decoded payload or, the body being
\* undecodable, with the decoding error.
C15_SuccessEndsFetch ==
    \A i \in 1..Len(trace) :
        trace[i].t = "success" =>
            /\ i = Len(trace)
            /\ Len(Sent) = trace[i].n + 1
            /\ hpc \in {"decode", "fetched", "cache_set", "idle"}
            /\ hpc # "decode" =>
                  \/ fetched[1] = "Ok"
                  \/ fetched[1] = "Err" /\ fetched[2] = "decode"

\* the second request was answered with success and an undecodable body: the
\* call returned the decoding error with two requests and one sleep made
C15_Witness ==
    /\ Len(trace) = 5
    /\ trace[5] = Event("success", 1)
    /\ Len(Sent) = 2
    /\ hpc = "idle"
    /\ http_client.retries = DEFAULT_RETRIES
    /\ http_result = <<"Err", "decode">>

(* ------------------------------ C16 ------------------------------------ *)
\* the file holds a whole entry that has a time-to-live and is within it
HoldsUnexpired(file, t) ==
    /\ IsSome(file)
    /\ from_str(Unwrap(file))[1] = "Ok"
    /\ from_str(Unwrap(file))[2].ttl_seconds > 0
    /\ t <= from_str(Unwrap(file))[2].timestamp + from_str(Unwrap(file))[2].ttl_seconds

\* C16: a get or post on a client with a cache, entered while the file of the
\* derived key holds an unexpired entry, returns that entry's data in the
\* same step: no request is sent.
C16_HitSendsNothing ==
    [][(/\ calls' = calls + 1
        /\ IsSome(http_client.cache)
        /\ HoldsUnexpired(disk[Unwrap(request').key], now))
       => /\ http_result' = <<"Ok", from_str(Unwrap(disk[Unwrap(request').key]))[2].data>>
          /\ hpc' = "idle"
          /\ trace' = <<>>
          /\ disk' = disk
      ]_vars

\* the second call was served from the entry the first call fetched and wrote
C16_Witness ==
    /\ calls = 2
    /\ hpc = "idle"
    /\ trace = <<>>
    /\ http_result = <<"Ok", <<"b", "b">>>>
    /\ HoldsUnexpired(disk[Unwrap(request).key], now)

C18_NoPartialEntryObserved == \A content \in observed : from_str(content)[1] = "Ok"

(* ------------------------------ C19 ------------------------------------ *)
\* process p has finished a get, its latest set before it having returned Ok
GotAfterSet(p) ==
    /\ procs[p].pc = "idle"
    /\ procs[p].res.op = "get"
    /\ IsSome(procs[p].last_set)

\* the entry the latest set of p stored: its data, the clock reading of the
\* call, the time-to-live of p's CacheManager
EntrySet(p) ==
    [data |-> Unwrap(procs[p].last_set).data,
     timestamp |-> Unwrap(procs[p].last_set).at,
     ttl_seconds |-> procs[p].cache.default_ttl]

\* C19, as stated: a get after set(ns, key, v) returns the entry with data v
\* while now <= timestamp + ttl and absent afterwards, the latest set counting.
C19_SetThenGet_asStated ==
    \A p \in Procs :
        GotAfterSet(p) =>
            procs[p].res.out =
                IF procs[p].res.at <= EntrySet(p).timestamp + EntrySet(p).ttl_seconds
                THEN <<"Ok", Some(EntrySet(p))>>
                ELSE <<"Ok", None>>

\* C19: with a time-to-live above 0, a get after set(ns, key, v) returns the
\* entry with data v while now <= timestamp + ttl and absent (no error)
\* afterwards; with a time-to-live of 0 it returns absent at once. The latest
\* set counts: its value and its timestamp.
C19_SetThenGet ==
    \A p \in Procs :
        GotAfterSet(p) =>
            procs[p].res.out =
                IF /\ EntrySet(p).ttl_seconds > 0
                   /\ procs[p].res.at <= EntrySet(p).timestamp + EntrySet(p).ttl_seconds
                THEN <<"Ok", Some(EntrySet(p))>>
                ELSE <<"Ok", None>>

\* set at second 0, set again with another value at second 1, get at second 2,
\* the last second of the second entry's life: the second value is returned
C19_Witness ==
    /\ GotAfterSet(1)
    /\ procs[1].left = 0
    /\ procs[1].cache.default_ttl = 1
    /\ Unwrap(procs[1].last_set) = [data |-> <<"b", "b">>, at |-> 1]
    /\ procs[1].res.at = 2
    /\ procs[1].res.out = <<"Ok", Some(CacheEntry_new(<<"b", "b">>, 1, 1))>>

(* ------------------------------ C20 ------------------------------------ *)
\* C20: with a CacheManager whose time-to-live is 0, a get after a set
\* returns absent, whatever the clock reads.
C20_TtlZeroAlwaysExpired ==
    \A p \in Procs :
        (GotAfterSet(p) /\ procs[p].cache.default_ttl = 0) =>
            procs[p].res.out = <<"Ok", None>>

\* a get in the very second of the set read the whole entry, its ttl_seconds
\* 0, and returned absent
C20_Witness ==
    /\ GotAfterSet(1)
    /\ procs[1].cache.default_ttl = 0
    /\ procs[1].res.at = Unwrap(procs[1].last_set).at
    /\ procs[1].res.read = Some(to_string_pretty(EntrySet(1)))
    /\ procs[1].res.out = <<"Ok", None>>

(* ------------------------------ C21 ------------------------------------ *)
\* process p takes a step of a get
GetStep(p) ==
    /\ procs'[p] # procs[p]
    /\ \/ procs[p].pc \in {"get_read", "get_check"}
       \/ procs'[p].pc = "get_read"
       \/ procs[p].pc = "idle" /\ procs'[p].pc = "idle" /\ procs'[p].res.op = "get"

\* C21: a get by the only user of its directory ends in one of three ways
\* besides the hit: it found no file and returns absent; it read an entry
\* whose time-to-live is over and returns absent; it read content that is not
\* an entry and returns an error, never absent. No step of a get changes or
\* removes the file.
C21_GetOutcomes ==
    /\ [](procs[1].res.op = "get" =>
            LET r == procs[1].res
            IN  /\ ~IsSome(r.read) => r.out = <<"Ok", None>>
                /\ (IsSome(r.read) /\ from_str(Unwrap(r.read))[1] = "Err") => r.out = <<"Err">>
                /\ (IsSome(r.read) /\ from_str(Unwrap(r.read))[1] = "Ok") =>
                      r.out = IF is_expired(from_str(Unwrap(r.read))[2], r.at)
                              THEN <<"Ok", None>>
                              ELSE <<"Ok", Some(from_str(Unwrap(r.read))[2])>>)
    /\ [][GetStep(1) => disk' = disk]_vars

\* a set that failed after opening the file left it empty, and the get that
\* followed read it and returned an error, the file still there
C21_Witness ==
    /\ procs[1].res.op = "get"
    /\ procs[1].res.read = truncated
    /\ procs[1].res.out = <<"Err">>
    /\ disk[SharedKey] = truncated

(* ------------------------------ C22 - C24 ------------------------------ *)
\* the last call on the tree was op and returned Ok
Returned(op) == cache_call.op = op /\ cache_call.out[1] = "Ok"

\* the entry files of a namespace: those get(dir, k) reads for some key k
EntriesOf(t, dir) == {f \in DOMAIN t.files : Under(<<<<dir>>>>, f)}

\* C22: after clean_expired(ns) the entries of the namespace that parse and
\* are expired are gone, and every other file of the tree (the unexpired and
\* the unparsable entries of the namespace, the entries of other namespaces)
\* is there with the content it had.
C22_CleanDeletesExactlyExpired ==
    Returned("clean_expired") =>
        LET b == cache_call.before
        IN  /\ DOMAIN tree.files \subseteq DOMAIN b.files
            /\ \A f \in DOMAIN b.files :
                  IF /\ f \in EntriesOf(b, cache_call.dir)
                     /\ from_str(b.files[f])[1] = "Ok"
                     /\ is_expired(from_str(b.files[f])[2], now)
                  THEN f \notin DOMAIN tree.files
                  ELSE f \in DOMAIN tree.files /\ tree.files[f] = b.files[f]

\* C23: after clear(ns) on an existing namespace directory, get(ns, k) is
\* absent for every key k, the directory exists, and the files outside it
\* are there with the content they had.
C23_ClearResets ==
    (Returned("clear") /\ <<<<cache_call.dir>>>> \in cache_call.before.dirs) =>
        /\ \A k \in CacheKeys : get_in(tree, cache_call.dir, k, now) = <<"Ok", None>>
        /\ <<<<cache_call.dir>>>> \in tree.dirs
        /\ \A f \in DOMAIN cache_call.before.files :
              ~Under(<<<<cache_call.dir>>>>, f) =>
                  f \in DOMAIN tree.files /\ tree.files[f] = cache_call.before.files[f]

\* C24: the path of a key is the path of the sanitized key, and the file a
\* set writes lies directly inside the namespace directory.
C24_PathFromSanitizedKey ==
    Returned("set") =>
        /\ path_for(cache_call.dir, cache_call.key)
              = path_for(cache_call.dir, sanitize_cache_key(cache_call.key))
        /\ \E f \in DOMAIN tree.files :
              /\ parent(f) = <<<<cache_call.dir>>>>
              /\ f = Unwrap(locate(tree, path_for(cache_call.dir, cache_call.key)))

(* ------------------------- version.rs claims --------------------------- *)
\* the call of op has returned
Called(op) == IsSome(input) /\ IsSome(output) /\ Unwrap(input).op = op

\* a is lower than b in (major, minor, patch) order
TripleLt(a, b) ==
    \/ a.major < b.major
    \/ a.major = b.major /\ a.minor < b.minor
    \/ a.major = b.major /\ a.minor = b.minor /\ a.patch < b.patch

\* the version string without its pre-release tag
Untagged(s) == [s EXCEPT !.pre = ""]

C26_NoDowngradeReported ==
    (/\ Called("classify_update")
     /\ IsSome(Version_parse(Unwrap(input).a))
     /\ IsSome(Version_parse(Unwrap(input).b))
     /\ TripleLt(Unwrap(Version_parse(Unwrap(input).b)), Unwrap(Version_parse(Unwrap(input).a))))
    => Unwrap(output) = "None"

\* C27: satisfies(Caret(v), version), v zero-padded and both parsable: with
\* v.major = 0 it holds iff version.major = 0, the minors are equal and
\* version.patch >= v.patch; with v.major non-zero it holds iff the majors
\* are equal and version.minor > v.minor, or the minors are equal and
\* version.patch >= v.patch.
C27_CaretRule ==
    (/\ Called("satisfies")
     /\ Unwrap(input).a.kind = "Caret"
     /\ IsSome(parse_version(Unwrap(input).a.v))
     /\ IsSome(Version_parse(Unwrap(input).b)))
    => LET v == Unwrap(parse_version(Unwrap(input).a.v))
           version == Unwrap(Version_parse(Unwrap(input).b))
       IN  Unwrap(output) =
              IF v.major = 0
              THEN version.major = 0 /\ version.minor = v.minor /\ version.patch >= v.patch
              ELSE /\ version.major = v.major
                   /\ \/ version.minor > v.minor
                      \/ version.minor = v.minor /\ version.patch >= v.patch

\* Caret("0"), padded to 0.0.0, was checked against 0.1.0 and rejected it
C27_Witness ==
    /\ Called("satisfies")
    /\ Unwrap(input).a.kind = "Caret"
    /\ Unwrap(input).a.v = VersionString("", <<0>>, "")
    /\ Unwrap(input).b = VersionString("", <<0, 1, 0>>, "")
    /\ Unwrap(output) = FALSE

\* C28: satisfies(Tilde(v), version), v zero-padded and both parsable, holds
\* iff version >= v in version order, the majors are equal and, when v is
\* written with two or three components, the minors are equal.
C28_TildeRule ==
    (/\ Called("satisfies")
     /\ Unwrap(input).a.kind = "Tilde"
     /\ IsSome(parse_version(Unwrap(input).a.v))
     /\ IsSome(Version_parse(Unwrap(input).b)))
    => LET v == Unwrap(parse_version(Unwrap(input).a.v))
           version == Unwrap(Version_parse(Unwrap(input).b))
       IN  Unwrap(output) =
              (/\ Version_ge(version, v)
               /\ version.major = v.major
               /\ (Len(Unwrap(input).a.v.parts) \in {2, 3}) => (version.minor = v.minor))

\* Tilde("2") accepted 2.2.0
C28_Witness ==
    /\ Called("satisfies")
    /\ Unwrap(input).a.kind = "Tilde"
    /\ Unwrap(input).a.v = VersionString("", <<2>>, "")
    /\ Unwrap(input).b = VersionString("", <<2, 2, 0>>, "")
    /\ Unwrap(output) = TRUE

\* C29: satisfies(GreaterThanEqual(v), version), v zero-padded and both
\* parsable, is true iff version is not lower than v in (major, minor,
\* patch) order, with or without a pre-release tag on version.
C29_GreaterThanEqualNumeric ==
    (/\ Called("satisfies")
     /\ Unwrap(input).a.kind = "GreaterThanEqual"
     /\ IsSome(parse_version(Unwrap(input).a.v))
     /\ IsSome(Version_parse(Unwrap(input).b)))
    => Unwrap(output) =
          ~TripleLt(Unwrap(Version_parse(Unwrap(input).b)), Unwrap(parse_version(Unwrap(input).a.v)))

\* the constraint body is empty or does not parse
BadBody(constraint) ==
    IF constraint.kind = "Range" THEN ~IsSome(VersionReq_parse(constraint.v))
    ELSE ~IsSome(parse_version(constraint.v))

\* C30: satisfies always returns a boolean, and returns false whenever the
\* version string does not parse or the constraint body is empty or does not
\* parse, whatever the variant.
C30_FailsClosed ==
    Called("satisfies") =>
        /\ Unwrap(output) \in BOOLEAN
        /\ (~IsSome(Version_parse(Unwrap(input).b)) \/ BadBody(Unwrap(input).a)) => Unwrap(output) = FALSE

(* ------------------------------ C31 ------------------------------------ *)
\* the step in which get_update_info of the trait's default returns
DefaultReturns ==
    /\ pc = "update_wait"
    /\ Unwrap(Client).kind = "default"
    /\ Len(log') = Len(log) + 1

\* C31: the default get_update_info gives an UpdateInfo with the
\* dependency, its version as current_version and the answer as
\* latest_version whenever get_latest_version answers a version, whatever
\* that version is; gives no entry exactly when the answer is absent; and
\* fails when get_latest_version fails, which ends the scan with the error.
C31_DefaultUpdateInfo ==
    [][DefaultReturns =>
          LET ret == log'[Len(log')]
          IN  IF ret.ok
              THEN /\ returned' = returned
                   /\ IF IsSome(ret.out)
                      THEN updates' = Append(updates,
                              [dependency |-> Dep, current_version |-> Dep.version,
                               latest_version |-> Unwrap(ret.out)])
                      ELSE updates' = updates
              ELSE returned' = <<"Err">> /\ updates' = updates
      ]_vars

\* the default client answered 1.1.0 for a dependency at 2.0.0, and the
\* scan holds the update with that older version as latest
C31_Witness ==
    /\ pc = "vuln"
    /\ IsSome(Client) /\ Unwrap(Client).kind = "default"
    /\ Dep.version = VersionString("", <<2, 0, 0>>, "")
    /\ Len(updates) >= 1
    /\ updates[Len(updates)].dependency = Dep
    /\ updates[Len(updates)].current_version = VersionString("", <<2, 0, 0>>, "")
    /\ updates[Len(updates)].latest_version = VersionString("", <<1, 1, 0>>, "")

(* ------------------------------ C35 - C37 ------------------------------ *)
\* the results the per-ecosystem map of a report holds
MapValues(r) == {Unwrap(r.ecosystem_results[e]) : e \in {x \in Ecosystems : IsSome(r.ecosystem_results[x])}}

RECURSIVE SumOver(_, _)
\* the sum of the values of the operator over the results of the set
SumOver(rs, field) ==
    IF rs = {} THEN 0
    ELSE LET r == CHOOSE x \in rs : TRUE
         IN  Len(r[field]) + SumOver(rs \ {r}, field)

\* C35: in a report scan returns, total_dependency_files is the sum of the
\* files_found sizes and total_dependencies the sum of the dependencies sizes
\* over the values of ecosystem_results.
C35_MapAccountsForTotals ==
    ReturnedOk =>
        /\ returned[2].total_dependency_files = SumOver(MapValues(returned[2]), "files_found")
        /\ returned[2].total_dependencies = SumOver(MapValues(returned[2]), "dependencies")

\* C36: in a report scan returns, summary.vulnerabilities_found is the
\* number of vulnerabilities of all results folded, and at least the sum of
\* the four severity counters.
C36_VulnerabilitiesFound ==
    ReturnedOk =>
        /\ returned[2].summary.vulnerabilities_found =
              SumSeq([k \in 1..Len(folded) |-> Len(folded[k].vulnerabilities)])
        /\ returned[2].summary.vulnerabilities_found >=
              returned[2].summary.critical_vulnerabilities + returned[2].summary.high_vulnerabilities
                  + returned[2].summary.medium_vulnerabilities + returned[2].summary.low_vulnerabilities

\* C37: in a report scan returns, outdated_dependencies and
\* up_to_date_dependencies add up to total_dependencies, updates_available
\* equals outdated_dependencies, and no folded result has more updates than
\* dependencies.
C37_OutdatedPlusUpToDate ==
    ReturnedOk =>
        /\ returned[2].summary.outdated_dependencies + returned[2].summary.up_to_date_dependencies
              = returned[2].total_dependencies
        /\ returned[2].summary.updates_available = returned[2].summary.outdated_dependencies
        /\ \A k \in 1..Len(folded) : Len(folded[k].updates) <= Len(folded[k].dependencies)

\* a scan returned a report of two dependencies in two files, one of them
\* with an update and one without
C37_Witness ==
    /\ ReturnedOk
    /\ Len(folded) = 2
    /\ returned[2].total_dependencies = 2
    /\ returned[2].summary.outdated_dependencies = 1
    /\ returned[2].summary.up_to_date_dependencies = 1

(* ------------------------------ C40 ------------------------------------ *)
\* the detected files, by number, whose ecosystem has a registered parser
Parsable == {f \in 1..Len(files) : IsSome(get_parser(registry, files[f].ecosystem))}

\* C40: a scan whose plugin calls all return comes to its end; when it
\* returns a report it has called parse once for every detected file with a
\* parser and for no other, get_update_info and the vulnerability scan at
\* most once for every dependency parsed and for nothing else, and has
\* folded one result per parsed file.
C40_TerminatesWithBoundedCalls ==
    /\ <>(returned # <<>>)
    /\ [](ReturnedOk =>
            /\ \A f \in 1..Len(files) :
                  /\ Cardinality(CallsOf("parse", f, 0)) = (IF f \in Parsable THEN 1 ELSE 0)
                  /\ \A d \in 1..MaxDeps :
                        /\ Cardinality(CallsOf("update", f, d)) <= 1
                        /\ Cardinality(CallsOf("vuln", f, d)) <= 1
                        /\ (d > Len(OutOf("parse", f, 0))) =>
                              CallsOf("update", f, d) \cup CallsOf("vuln", f, d) = {}
            /\ Cardinality({i \in 1..Len(log) : log[i].t = "call"
                               /\ log[i].op \in {"parse", "update", "vuln"}
                               /\ log[i].f \notin 1..Len(files)}) = 0
            /\ Len(folded) = Cardinality(Parsable))

\* a scan returned a report after two files were parsed, both lookups made
\* for a dependency, and two results folded
C40_Witness ==
    /\ ReturnedOk
    /\ Cardinality(Parsable) = 2
    /\ Len(folded) = 2
    /\ Cardinality(CallsOf("update", 1, 1)) = 1
    /\ Cardinality(CallsOf("vuln", 1, 1)) = 1


(* ------------------------------ C33 ------------------------------------ *)
RegisteredComposerPlugin ==
    \E i \in 1..Len(log) : log[i] = PluginEvent(ComposerPlugin_new)

\* C33: once register_plugin has been given the shipped ComposerPlugin, the
\* registry resolves a Detector, a Parser, a RegistryClient and a
\* VulnerabilityScanner for Composer, and a detect_all that has returned
\* has called a detector.
C33_RegisterPluginRegistersAll ==
    RegisteredComposerPlugin =>
        /\ IsSome(get_detector(registry, "Composer"))
        /\ IsSome(get_parser(registry, "Composer"))
        /\ IsSome(get_registry_client(registry, "Composer"))
        /\ IsSome(get_vulnerability_scanner(registry, "Composer"))
        /\ (pc = "detect_end" => \E i \in 1..Len(log) : log[i].op = "detect")


(* ------------------------------ C38 ------------------------------------ *)
\* a constraint string of one to three components whose major is at least 1
MajorAtLeastOne(v) == Len(v.parts) \in 1..3 /\ v.parts[1] >= 1

\* C38: for a constraint string v of one, two or three components with
\* major >= 1, every version that satisfies Tilde(v) satisfies Caret(v).
C38_TildeWithinCaret ==
    (/\ Called("satisfies")
     /\ Unwrap(input).a.kind = "Tilde"
     /\ MajorAtLeastOne(Unwrap(input).a.v)
     /\ Unwrap(output) = TRUE)
    => satisfies(VersionConstraint("Caret", Unwrap(input).a.v), Unwrap(input).b)

\* satisfies(Tilde("1.1"), "1.1.2") has returned true
C38_Witness ==
    /\ Called("satisfies")
    /\ Unwrap(input).a = VersionConstraint("Tilde", VersionString("", <<1, 1>>, ""))
    /\ Unwrap(input).b = VersionString("", <<1, 1, 2>>, "")
    /\ Unwrap(output) = TRUE
    /\ satisfies(VersionConstraint("Caret", Unwrap(input).a.v), Unwrap(input).b)


(* ------------------------------ C39 ------------------------------------ *)
\* C39: a get that runs while another process sets or cleans the same key
\* returns absent or an entry, never an error the other process caused. A
\* process runs its own operations one after the other, so a get that saw
\* the file exist and then failed to read it failed because of another
\* process; such a get has not happened.
C39_GetUndisturbed ==
    \A p \in Procs :
        ~(/\ procs[p].res.op = "get"
          /\ procs[p].res.read = None
          /\ procs[p].res.out = <<"Err">>)


(* ------------------------------ C34 ------------------------------------ *)
\* a get is entered and answered from the cache with the payload the previous
\* call, also a get, fetched from its URL and stored
GetServedFromPreviousFetch ==
    /\ hpc = "idle" /\ hpc' = "idle"
    /\ calls' = calls + 1
    /\ IsSome(http_client.cache)
    /\ IsSome(request) /\ Unwrap(request).method = "get"
    /\ Unwrap(request').method = "get"
    /\ Len(fetched) = 2 /\ fetched[1] = "Ok"
    /\ http_result = fetched
    /\ http_result' = fetched

\* C34: with a cache attached, a get(u) that is answered from the cache
\* returns a payload that was fetched from u: the get whose fetch stored
\* the entry was a get of the same URL.
C34_GetServesOwnUrl ==
    [][GetServedFromPreviousFetch => Unwrap(request').url = Unwrap(request).url]_vars


(* ------------------------------ C32 ------------------------------------ *)
\* the requirement a declared string expresses: strictly above for ">",
\* the version itself for a string without operator, and for "^", "~" and
\* ">=" what VersionComparator makes of the Caret, Tilde and
\* GreaterThanEqual constraints
Meets(s, x) ==
    IF s.op = ">"
    THEN /\ IsSome(parse_version(s.v)) /\ IsSome(Version_parse(x))
         /\ Version_lt(Unwrap(parse_version(s.v)), Unwrap(Version_parse(x)))
    ELSE IF s.op = ""
    THEN IsSome(Version_parse(x)) /\ Version_parse(x) = Version_parse(s.v)
    ELSE satisfies(VersionConstraint(CASE s.op = "^" -> "Caret" [] s.op = "~" -> "Tilde"
                                       [] OTHER -> "GreaterThanEqual", s.v), x)

\* C32: the constraint parse_constraint gives a Dependency denotes the
\* requirement its declared version string expresses: a version satisfies
\* the constraint exactly when it meets the declared requirement.
C32_ConstraintDenotesDeclared ==
    Called("parse_constraint") =>
        (satisfies(Unwrap(output), Unwrap(input).b) <=> Meets(Unwrap(input).a, Unwrap(input).b))

====
